---- MODULE Spec2Model ----
(***************************************************************************)
(* Model of discord-verify: the /verify slash command that issues a        *)
(* pending verification, the two web handlers of the linking flow          *)
(* (verify_start, link_callback in src/web/auth.rs), the status endpoint,  *)
(* the Keycloak federated identities they read, and the completion channel *)
(* read by the bot task.                                                   *)
(*                                                                         *)
(* Every await point of a handler that touches shared state is one step:   *)
(* between two steps of one request any other request, command or          *)
(* environment change may run (tokio tasks on a multi-threaded runtime).   *)
(*                                                                         *)
(* Seven specifications share the variables:                               *)
(*   Spec      the linking flow, with the bot task's consumption of a      *)
(*             completion as one step;                                     *)
(*   BotSpec   the bot task in detail: complete_verification call by call, *)
(*             the /unverify command, the role configuration it loads;     *)
(*   AttrSpec  the same consumer on servers that store both a level role   *)
(*             and a class role, under each role mode;                     *)
(*   LiveSpec  AttrSpec with the scheduling of the spawned consumer task;  *)
(*   RoleSpec  the role wizard's save step (save_and_create_roles) call by *)
(*             call, /setverifiedrole, and the changes administrators make *)
(*             to the server's roles in Discord;                           *)
(*   PairSpec  two operators of one server saving at the same time;        *)
(*   RerunSpec a save step run again after one that a failed call ended.   *)
(***************************************************************************)
EXTENDS Integers, Sequences, FiniteSets, TLC

\* ------------------------------------------------------------------ bounds
MaxTokens == 2      \* /verify commands that create a token
MaxReqs == 2        \* web requests (verify_start, link_callback) ever started
MaxTicks == 1       \* clock advances
TickLen == 600      \* seconds per clock advance

\* --------------------------------------------------------------- constants
VERIFY_TTL == 600   \* SETEX ... 600 "10 minutes"

Users == {"U1", "U2"}        \* Discord user ids
Guilds == {"G1"}             \* Discord guild ids
Subjects == {"S1", "S2"}     \* Keycloak (SSO) user ids; one web session each

Tokens == 1..MaxTokens
UnknownToken == MaxTokens + 1   \* a state string no /verify ever produced
ReqIds == 1..MaxReqs

LevelKeys == {"level:Undergrad", "level:Graduate"}
ClassKeys == {"class:First-Year", "class:Sophomore", "class:Junior", "class:Senior",
              "class:Fifth-Year Senior", "class:Masters", "class:Doctoral"}
RoleKeys == LevelKeys \cup ClassKeys

NoRole == 0                  \* no role id (Option::None)
NoUser == "none"
NoVer == [discord_user_id |-> NoUser, guild_id |-> "none", created_at |-> 0]

VARIABLES
    now,            \* chrono::Utc::now().timestamp()
    nextToken,      \* Uuid::new_v4(): tokens are fresh, never reused
    pending,        \* AppState.pending_verifications: token -> PendingVerification
    redisVerify,    \* Redis keys verify:<token>: token -> expiry time (SETEX)
    issued,         \* verification links sent to users: token -> record created for it
    fed,            \* Keycloak: subject -> id of its "discord" federated identity
    session,        \* tower_sessions: subject's session -> pending_verification_state
    req,            \* web requests: the handler's locals and its position
    sentLog,        \* every VerificationComplete sent on verification_tx, in order
    rcvd,           \* how many of them verification_rx.recv() has returned
    redisLink,      \* Redis identity keys written by complete_verification
    lastResp,       \* the response most recently returned by a web handler
    cons,           \* the consumer task: its position in complete_verification
    unv,            \* the /unverify handler: its position and locals
    redisGuild,     \* Redis keys guild:<id>:role:verified, :role_mode, :role:<key>, :log_channel
    guildRoles,     \* Discord: the server's live roles, role id -> name
    memberRoles,    \* Discord: user -> roles the member holds in the server
    setup,          \* the save step of the role wizard: save_and_create_roles' locals
    setupSessions,  \* AppState.setuproles_sessions: the operator's SetupRolesSession, if any
    parked,         \* a second operator of the server: its save step and its session
    drift           \* Discord: how many changes administrators made to the roles by hand

\* The state of the bot side that the web handlers never touch.
botVars == <<cons, unv, redisGuild, guildRoles, memberRoles, setup, setupSessions, parked,
            drift>>

\* The state of the web side that the bot's consumer and commands never touch.
webVars == <<redisVerify, fed, session, req, lastResp>>

vars == <<now, nextToken, pending, redisVerify, issued, fed, session, req,
          sentLog, rcvd, redisLink, lastResp, botVars>>

\* ------------------------------------------------------------ pure helpers

\* A Redis key with a TTL is visible while its expiry lies in the future.
RedisVerifyGet(t) == IF t \in DOMAIN redisVerify /\ now < redisVerify[t] THEN <<t>> ELSE <<>>

\* Mutant of LookupVerification: a miss in the map falls back to the verify:<token> key.
LookupThroughStore(map, t) ==
    IF t \in DOMAIN map THEN <<map[t]>>
    ELSE IF RedisVerifyGet(t) # <<>> THEN <<issued[t]>> ELSE <<>>

\* A map's get: an Option, here a sequence of length 0 or 1.
Lookup(map, t) == IF t \in DOMAIN map THEN <<map[t]>> ELSE <<>>

\* "Get verification data": pending_verifications.read().await.get(..).cloned()
LookupVerification(map, t) == Lookup(map, t)

\* HashMap::insert
Insert(map, t, v) == [x \in DOMAIN map \cup {t} |-> IF x = t THEN v ELSE map[x]]

\* Mutant of Remove: the entry is left in the map.
RemoveNothing(map, t) == map

\* HashMap::remove: absent keys are left alone.
Remove(map, t) == [x \in DOMAIN map \ {t} |-> map[x]]

\* Mutant of DiscordIdentity: the provider name never matches.
DiscordIdentityNone(identities, s) == <<>>

\* Mutant of DiscordIdentity: a subject without a Discord identity yields one
\* with an empty id.
DiscordIdentityUnchecked(identities, s) == <<identities[s]>>

\* identities.iter().find(|i| i.identity_provider == Some("discord"))
DiscordIdentity(identities, s) == IF identities[s] = NoUser THEN <<>> ELSE <<identities[s]>>

\* Mutants of IdMatches: the comparison is dropped, or never succeeds.
IdMatchesAlways(discordId, ver) == TRUE
IdMatchesNever(discordId, ver) == FALSE

\* discord.user_id.as_deref() == Some(&verification.discord_user_id.to_string())
IdMatches(discordId, ver) == discordId = ver.discord_user_id

\* Mutant of Completion: the Discord id is put where the Keycloak id belongs.
CompletionWrongSubject(ver, user_id, t) ==
    [discord_user_id |-> ver.discord_user_id, guild_id |-> ver.guild_id,
     keycloak_user_id |-> ver.discord_user_id, token |-> t]

\* VerificationComplete { discord_user_id, guild_id, keycloak_user_id }
\* (token: the state token of the request that sent it, kept for the record;
\* the Rust struct does not carry it).
Completion(ver, user_id, t) ==
    [discord_user_id |-> ver.discord_user_id, guild_id |-> ver.guild_id,
     keycloak_user_id |-> user_id, token |-> t]

IdleReq == [kind |-> "idle", pc |-> "idle", token |-> UnknownToken, user |-> NoUser,
            ver |-> NoVer]
\* A finished request: only the state token it carried is remembered.
DoneReq(t) == [IdleReq EXCEPT !.pc = "done", !.token = t]
NoResp == [id |-> 0, kind |-> "none", token |-> UnknownToken, user |-> NoUser,
           outcome |-> "none"]

\* The handler returns: its locals are dropped, the response goes out.
Respond(r, kind, t, s, out) ==
    /\ req' = [req EXCEPT ![r] = DoneReq(t)]
    /\ lastResp' = [id |-> r, kind |-> kind, token |-> t, user |-> s, outcome |-> out]

\* The handler moves on to its next await point.
Goto(r, next) ==
    /\ req' = [req EXCEPT ![r] = next]
    /\ UNCHANGED lastResp

\* No identity key is stored: dk is discord:<id>:keycloak, kd is
\* keycloak:<id>:discord, at is discord:<id>:verified_at.
NoLinks == [dk |-> <<>>, kd |-> <<>>, at |-> <<>>]

\* The consumer between two events. n: the event being (or last) processed;
\* cfg: the role configuration it loaded; result: what complete_verification
\* returned; msgs: the notifications that went out for the event.
NoConfig == [verified |-> NoRole, mode |-> "none", role |-> <<>>, log |-> FALSE]
NoAttrs == [level |-> "none", class |-> "none"]
IdleCons == [pc |-> "idle", n |-> 0, cfg |-> NoConfig, attrs |-> NoAttrs, result |-> "none",
             msgs |-> {}]

\* bot::run returned its error before it spawned the consumer (the token
\* did not parse, or Client::builder failed): verification_rx was dropped
\* with it and no event handler ever runs, while the web server goes on.
NoConsumer == [IdleCons EXCEPT !.pc = "dropped"]

\* No /unverify is running. n: how many have been started.
IdleUnv == [pc |-> "idle", n |-> 0, target |-> NoUser, kc |-> NoUser, reply |-> "none"]

\* No save step is running. n: how many have been started. The other fields
\* are save_and_create_roles' locals: the session (mode, custom_roles), the
\* guild fetched at the start (its roles), the stored mode, current_roles,
\* desired_roles, roles_to_delete, roles_to_create, roles_to_keep, the loop
\* index, the id of the role just created, all_roles, and the result.
\* clean: no platform or store call of the run has failed; calls: the
\* create_role and delete_role calls issued so far; drift0: the count of
\* administrators' changes when the step started; prev: the session, the
\* result and the drift0 of the save step before this one.
NoRun == [mode |-> "none", custom |-> <<>>, result |-> "none", drift0 |-> 0]
IdleSetup == [pc |-> "idle", n |-> 0, mode |-> "none", custom |-> <<>>, guild |-> <<>>,
              current_mode |-> "none", current |-> <<>>, desired |-> <<>>,
              to_delete |-> <<>>, to_create |-> <<>>, to_keep |-> <<>>, i |-> 0,
              new_id |-> NoRole, all_roles |-> <<>>, result |-> "none",
              clean |-> TRUE, calls |-> <<>>, drift0 |-> 0, prev |-> NoRun]

\* SetupRolesSession::new(mode): nothing selected yet.
NewSession(mode) == [mode |-> mode, custom |-> <<>>]

\* setuproles_sessions is keyed by (guild, user): a second operator has a
\* session and a save step of its own. Nothing of it at the start.
NoParked == [setup |-> IdleSetup, session |-> <<>>]

\* A server nobody has configured: no key guild:<id>:* exists.
NoGuildConfig == NoConfig

\* Requests arrive in slot order (the slots are interchangeable).
CanStart(r) == req[r].pc = "idle" /\ \A q \in ReqIds : q < r => req[q].pc # "idle"

\* -------------------------------------------------------------------- Init
Init ==
    /\ now = 0
    /\ nextToken = 1
    /\ pending = <<>>
    /\ redisVerify = <<>>
    /\ issued = <<>>
    /\ fed = [s \in Subjects |-> NoUser]
    /\ session = [s \in {} |-> UnknownToken]
    /\ req = [r \in ReqIds |-> IdleReq]
    /\ sentLog = <<>>
    /\ rcvd = 0
    /\ redisLink = NoLinks
    /\ lastResp = NoResp
    /\ cons \in {IdleCons, NoConsumer}
    /\ unv = IdleUnv
    /\ redisGuild = NoGuildConfig
    /\ guildRoles = <<>>
    /\ memberRoles = [u \in Users |-> {}]
    /\ setup = IdleSetup
    /\ setupSessions = <<>>
    /\ parked = NoParked
    /\ drift = 0

\* UnboundedSender::send: the event joins the queue, unless the receiver was
\* dropped: then send returns Err, which the web handlers only log.
Send(log, ev) == IF cons.pc = "dropped" THEN log ELSE Append(log, ev)

\* Mutant of BotUp: slash commands are served although bot::run failed.
BotUpAlways == TRUE

\* Slash commands reach their handlers only while the client that bot::run
\* built is running, and run spawns the consumer before it starts the client.
BotUp == cons.pc # "dropped"

\* Mutant of VerifyCommand: the link is sent whatever SETEX returned.
VerifyCommandLinkAnyway(u, g, setexOk) ==
    /\ BotUp
    /\ u \notin DOMAIN redisLink.dk
    /\ nextToken <= MaxTokens
    /\ LET t == nextToken
           v == [discord_user_id |-> u, guild_id |-> g, created_at |-> now]
       IN /\ pending' = Insert(pending, t, v)
          /\ redisVerify' = IF setexOk THEN Insert(redisVerify, t, now + VERIFY_TTL)
                            ELSE redisVerify
          /\ issued' = Insert(issued, t, v)
          /\ nextToken' = t + 1
    /\ UNCHANGED <<botVars, now, fed, session, req, sentLog, rcvd, redisLink, lastResp>>

\* ------------------------------------------------------- bot: /verify
\* commands::verify::handle, the branch that creates a token. setexOk: whether
\* the Redis SETEX succeeded; on its failure the handler returns the error
\* before the link is sent, and the in-process entry inserted just before
\* stays. `issued` records the links that reached a user.
VerifyCommand(u, g, setexOk) ==
    /\ BotUp
    /\ u \notin DOMAIN redisLink.dk
    /\ nextToken <= MaxTokens
    /\ LET t == nextToken
           v == [discord_user_id |-> u, guild_id |-> g, created_at |-> now]
       IN /\ pending' = Insert(pending, t, v)
          /\ redisVerify' = IF setexOk THEN Insert(redisVerify, t, now + VERIFY_TTL)
                            ELSE redisVerify
          /\ issued' = IF setexOk THEN Insert(issued, t, v) ELSE issued
          /\ nextToken' = t + 1
    /\ UNCHANGED <<botVars, now, fed, session, req, sentLog, rcvd, redisLink, lastResp>>

\* Mutant of GetVerifiedRole: an unconfigured server is passed on as a role
\* id instead of being reported.
GetVerifiedRoleUnchecked(cfg) == <<cfg.verified>>

\* GuildRoleConfig::get_verified_role: an Option, None reported as an error.
GetVerifiedRole(cfg) == IF cfg.verified = NoRole THEN <<>> ELSE <<cfg.verified>>

\* GuildRoleConfig::load: the verified role and the mode as stored, the level
\* and class roles that still exist among the server's live roles.
Load(store, live) ==
    [store EXCEPT !.role = [k \in {x \in DOMAIN store.role : store.role[x] \in DOMAIN live}
                             |-> store.role[k]]]

\* member.add_role: Discord rejects a role the server no longer has.
AddRoleOk(live, role, ok) == ok /\ role \in DOMAIN live
AddRole(held, live, u, role, ok) ==
    IF AddRoleOk(live, role, ok) THEN [held EXCEPT ![u] = @ \cup {role}] ELSE held

\* The "already verified" branch of handle: no token is created, the verified
\* role of this server is assigned. ok: the Discord and Redis calls succeed.
VerifyCommandAlreadyVerified(u, ok) ==
    /\ BotUp
    /\ u \in DOMAIN redisLink.dk
    /\ LET role == GetVerifiedRole(Load(redisGuild, guildRoles))
       IN memberRoles' = IF ok /\ role # <<>>
                         THEN AddRole(memberRoles, guildRoles, u, role[1], ok)
                         ELSE memberRoles
    /\ UNCHANGED <<now, nextToken, pending, redisVerify, issued, fed, session, req,
                   sentLog, rcvd, redisLink, lastResp, cons, unv, redisGuild, guildRoles,
                   setup, setupSessions, parked, drift>>

\* ------------------------------------------------------- web: verify_status
\* The handler only reads: its answer for the state token t.
VerifyStatus(t) == IF LookupVerification(pending, t) # <<>> THEN "pending" ELSE "not_found"

VerifyStatusPoll(t) ==
    /\ VerifyStatus(t) \in {"pending", "not_found"}
    /\ UNCHANGED vars

\* ------------------------------------------------------- web: verify_start
\* Lines 29-49: the lookup under the read lock.
VerifyStartLookup(r, t, s) ==
    /\ CanStart(r)
    /\ LET got == LookupVerification(pending, t)
           base == [IdleReq EXCEPT !.kind = "verify_start", !.token = t, !.user = s]
       IN IF got = <<>>
          THEN Respond(r, "verify_start", t, s, "Expired")
          ELSE Goto(r, [base EXCEPT !.pc = "vs_getfed", !.ver = got[1]])
    /\ UNCHANGED <<botVars, now, nextToken, pending, redisVerify, issued, fed, session,
                   sentLog, rcvd, redisLink>>

\* Lines 56-106: get_federated_identities, then (no await in between) the
\* branch on the Discord identity and, on a match, the send.
VerifyStartGetFed(r, kcOk) ==
    /\ req[r].pc = "vs_getfed"
    /\ LET me == req[r]
           d == DiscordIdentity(fed, me.user)
       IN IF ~kcOk
          THEN /\ Respond(r, req[r].kind, req[r].token, req[r].user, "KeycloakError")
               /\ UNCHANGED sentLog
          ELSE IF d # <<>>
          THEN IF IdMatches(d[1], me.ver)
               THEN /\ sentLog' = Send(sentLog, Completion(me.ver, me.user, me.token))
                    /\ Goto(r, [req[r] EXCEPT !.pc = "vs_remove"])
               ELSE /\ Respond(r, req[r].kind, req[r].token, req[r].user, "AlreadyLinkedElsewhere")
                    /\ UNCHANGED sentLog
          ELSE /\ Goto(r, [req[r] EXCEPT !.pc = "vs_sess_insert"])
               /\ UNCHANGED sentLog
    /\ UNCHANGED <<botVars, now, nextToken, pending, redisVerify, issued, fed, session,
                   rcvd, redisLink>>

\* Lines 88-96: the removal under the write lock, then the redirect to /success.
VerifyStartRemove(r) ==
    /\ req[r].pc = "vs_remove"
    /\ pending' = Remove(pending, req[r].token)
    /\ Respond(r, req[r].kind, req[r].token, req[r].user, "Linked")
    /\ UNCHANGED <<botVars, now, nextToken, redisVerify, issued, fed, session, sentLog,
                   rcvd, redisLink>>

\* Lines 111-130: the state token goes into the web session, then the redirect
\* to Keycloak's idp_link action.
VerifyStartSessInsert(r, sessOk) ==
    /\ req[r].pc = "vs_sess_insert"
    /\ IF sessOk
       THEN /\ session' = Insert(session, req[r].user, req[r].token)
            /\ Respond(r, req[r].kind, req[r].token, req[r].user, "AwaitingExternalAuth")
       ELSE /\ Respond(r, req[r].kind, req[r].token, req[r].user, "InternalError")
            /\ UNCHANGED session
    /\ UNCHANGED <<botVars, now, nextToken, pending, redisVerify, issued, fed, sentLog,
                   rcvd, redisLink>>

\* ------------------------------------------------------- web: link_callback
\* Lines 141-159: the claims, then session.get("pending_verification_state").
\* authed: the request carries OIDC claims; sessOk: the session store answers.
LinkCallbackSessGet(r, s, authed, sessOk) ==
    /\ CanStart(r)
    /\ LET base == [IdleReq EXCEPT !.kind = "link_callback", !.user = s]
           key == Lookup(session, s)
       IN IF ~authed
          THEN Respond(r, "link_callback", UnknownToken, NoUser, "InternalError")
          ELSE IF ~sessOk
          THEN Respond(r, "link_callback", UnknownToken, s, "InternalError")
          ELSE IF key = <<>>
          THEN Respond(r, "link_callback", UnknownToken, s, "Expired")
          ELSE Goto(r, [base EXCEPT !.pc = "lc_sess_remove", !.token = key[1]])
    /\ UNCHANGED <<botVars, now, nextToken, pending, redisVerify, issued, fed, session,
                   sentLog, rcvd, redisLink>>

\* Lines 163-166: session.remove; its failure is only logged.
LinkCallbackSessRemove(r, sessOk) ==
    /\ req[r].pc = "lc_sess_remove"
    /\ session' = IF sessOk THEN Remove(session, req[r].user) ELSE session
    /\ Goto(r, [req[r] EXCEPT !.pc = "lc_lookup"])
    /\ UNCHANGED <<botVars, now, nextToken, pending, redisVerify, issued, fed, sentLog,
                   rcvd, redisLink>>

\* Lines 168-183: the lookup under the read lock.
LinkCallbackLookup(r) ==
    /\ req[r].pc = "lc_lookup"
    /\ LET got == LookupVerification(pending, req[r].token)
       IN IF got = <<>>
          THEN Respond(r, "link_callback", req[r].token, req[r].user, "Expired")
          ELSE Goto(r, [req[r] EXCEPT !.pc = "lc_getfed", !.ver = got[1]])
    /\ UNCHANGED <<botVars, now, nextToken, pending, redisVerify, issued, fed, session,
                   sentLog, rcvd, redisLink>>

\* Mutant of LinkCallbackGetFed: the NotLinked exit cleans the token up too.
LinkCallbackGetFedCleansUp(r, kcOk) ==
    /\ req[r].pc = "lc_getfed"
    /\ LET me == req[r]
           d == DiscordIdentity(fed, me.user)
       IN IF ~kcOk
          THEN /\ Respond(r, req[r].kind, req[r].token, req[r].user, "KeycloakError")
               /\ UNCHANGED <<sentLog, pending>>
          ELSE IF d = <<>>
          THEN /\ Respond(r, req[r].kind, req[r].token, req[r].user, "NotLinked")
               /\ pending' = Remove(pending, me.token)
               /\ UNCHANGED sentLog
          ELSE IF ~IdMatches(d[1], me.ver)
          THEN /\ Goto(r, [req[r] EXCEPT !.pc = "lc_unlink"])
               /\ UNCHANGED <<sentLog, pending>>
          ELSE /\ sentLog' = Send(sentLog, Completion(me.ver, me.user, me.token))
               /\ Goto(r, [req[r] EXCEPT !.pc = "lc_remove"])
               /\ UNCHANGED pending
    /\ UNCHANGED <<botVars, now, nextToken, redisVerify, issued, fed, session,
                   rcvd, redisLink>>

\* Lines 185-237: get_federated_identities, then (no await in between) the
\* branch on the Discord identity and, on a match, the send.
LinkCallbackGetFed(r, kcOk) ==
    /\ req[r].pc = "lc_getfed"
    /\ LET me == req[r]
           d == DiscordIdentity(fed, me.user)
       IN IF ~kcOk
          THEN /\ Respond(r, req[r].kind, req[r].token, req[r].user, "KeycloakError")
               /\ UNCHANGED sentLog
          ELSE IF d = <<>>
          THEN /\ Respond(r, req[r].kind, req[r].token, req[r].user, "NotLinked")
               /\ UNCHANGED sentLog
          ELSE IF ~IdMatches(d[1], me.ver)
          THEN /\ Goto(r, [req[r] EXCEPT !.pc = "lc_unlink"])
               /\ UNCHANGED sentLog
          ELSE /\ sentLog' = Send(sentLog, Completion(me.ver, me.user, me.token))
               /\ Goto(r, [req[r] EXCEPT !.pc = "lc_remove"])
    /\ UNCHANGED <<botVars, now, nextToken, pending, redisVerify, issued, fed, session,
                   rcvd, redisLink>>

\* KeycloakClient::delete_federated_identity(user_id, "discord"): the admin
\* API removes the subject's Discord identity when the call succeeds.
DeleteFederatedIdentity(identities, s, kcOk) ==
    IF kcOk THEN [identities EXCEPT ![s] = NoUser] ELSE identities

\* Lines 218-225: "let _ = delete_federated_identity(..).await": the result
\* is discarded and WrongDiscordAccount returned either way.
LinkCallbackUnlink(r, kcOk) ==
    /\ req[r].pc = "lc_unlink"
    /\ fed' = DeleteFederatedIdentity(fed, req[r].user, kcOk)
    /\ Respond(r, req[r].kind, req[r].token, req[r].user, "WrongIdentity")
    /\ UNCHANGED <<botVars, now, nextToken, pending, redisVerify, issued, session, sentLog,
                   rcvd, redisLink>>

\* Lines 239-246: the removal under the write lock, then the redirect to /success.
LinkCallbackRemove(r) ==
    /\ req[r].pc = "lc_remove"
    /\ pending' = Remove(pending, req[r].token)
    /\ Respond(r, req[r].kind, req[r].token, req[r].user, "Linked")
    /\ UNCHANGED <<botVars, now, nextToken, redisVerify, issued, fed, session, sentLog,
                   rcvd, redisLink>>

\* ------------------------------------------------------- Keycloak, the clock
\* The user completes Keycloak's idp_link:discord action (or links in the
\* account console) while logged into Discord as u.
ExternalLink(s, u) ==
    /\ fed[s] = NoUser
    /\ fed' = [fed EXCEPT ![s] = u]
    /\ UNCHANGED <<botVars, now, nextToken, pending, redisVerify, issued, session, req,
                   sentLog, rcvd, redisLink, lastResp>>

\* The user or an administrator removes the link at the provider.
ExternalUnlink(s) ==
    /\ fed[s] # NoUser
    /\ fed' = [fed EXCEPT ![s] = NoUser]
    /\ UNCHANGED <<botVars, now, nextToken, pending, redisVerify, issued, session, req,
                   sentLog, rcvd, redisLink, lastResp>>

Tick ==
    /\ now + TickLen <= MaxTicks * TickLen
    /\ now' = now + TickLen
    /\ UNCHANGED <<botVars, nextToken, pending, redisVerify, issued, fed, session, req,
                   sentLog, rcvd, redisLink, lastResp>>

\* ------------------------------------------------------- bot: identity keys
\* SET discord:<u>:verified_at <timestamp>
SetVerifiedAt(link, u, ts) == [link EXCEPT !.at = Insert(link.at, u, ts)]

\* SET discord:<u>:keycloak <s>
SetDiscordKeycloak(link, u, s) == [link EXCEPT !.dk = Insert(link.dk, u, s)]

\* SET keycloak:<s>:discord <u>
SetKeycloakDiscord(link, s, u) == [link EXCEPT !.kd = Insert(link.kd, s, u)]

\* "Store mapping in Redis": the three SETs in the code's order, up to the
\* first that fails. sets: how many succeeded; 0 also stands for a failure
\* before them (member fetch, role configuration, role assignment, get_user).
CompleteVerification(link, ev, sets, ts) ==
    LET l1 == IF sets >= 1 THEN SetVerifiedAt(link, ev.discord_user_id, ts) ELSE link
        l2 == IF sets >= 2 THEN SetDiscordKeycloak(l1, ev.discord_user_id, ev.keycloak_user_id)
              ELSE l1
    IN IF sets >= 3 THEN SetKeycloakDiscord(l2, ev.keycloak_user_id, ev.discord_user_id)
       ELSE l2

\* ------------------------------------------------------- bot: the consumer
\* The consumer as the linking flow sees it: recv() returns the next event in
\* send order and complete_verification runs to its end before the next
\* recv(); only its effect on the identity keys is kept.
ConsumerRecv(sets) ==
    /\ cons.pc = "idle"
    /\ rcvd < Len(sentLog)
    /\ rcvd' = rcvd + 1
    /\ redisLink' = CompleteVerification(redisLink, sentLog[rcvd + 1], sets, now)
    /\ UNCHANGED <<botVars, now, nextToken, pending, redisVerify, issued, fed, session, req,
                   sentLog, lastResp>>

\* -------------------------------------------------------------------- Next
\* A request carries a state token some user was given, or one nobody was given.
Next ==
    \/ \E u \in Users, g \in Guilds, ok \in BOOLEAN : VerifyCommand(u, g, ok)
    \/ \E u \in Users, ok \in BOOLEAN : VerifyCommandAlreadyVerified(u, ok)
    \/ \E t \in DOMAIN issued \cup {UnknownToken} : VerifyStatusPoll(t)
    \/ \E r \in ReqIds, t \in DOMAIN issued \cup {UnknownToken}, s \in Subjects :
          VerifyStartLookup(r, t, s)
    \/ \E r \in ReqIds, ok \in BOOLEAN : VerifyStartGetFed(r, ok)
    \/ \E r \in ReqIds : VerifyStartRemove(r)
    \/ \E r \in ReqIds, ok \in BOOLEAN : VerifyStartSessInsert(r, ok)
    \/ \E r \in ReqIds, s \in Subjects, authed \in BOOLEAN, ok \in BOOLEAN :
          LinkCallbackSessGet(r, s, authed, ok)
    \/ \E r \in ReqIds, ok \in BOOLEAN : LinkCallbackSessRemove(r, ok)
    \/ \E r \in ReqIds : LinkCallbackLookup(r)
    \/ \E r \in ReqIds, ok \in BOOLEAN : LinkCallbackGetFed(r, ok)
    \/ \E r \in ReqIds, ok \in BOOLEAN : LinkCallbackUnlink(r, ok)
    \/ \E r \in ReqIds : LinkCallbackRemove(r)
    \/ \E s \in Subjects, u \in Users : ExternalLink(s, u)
    \/ \E s \in Subjects : ExternalUnlink(s)
    \/ Tick
    \/ \E k \in 0..3 : ConsumerRecv(k)


Spec == Init /\ [][Next]_vars

\* =========================================================== the bot side
\* The consumer task step by step, /unverify, and the linking flow reduced to
\* what it does to the channel.

MaxUnverify == 1    \* /unverify commands ever started
VerifiedRole == 1   \* the role id an administrator gave to /setverifiedrole
UndergradRole == 2  \* the role id stored under guild:<id>:role:level:Undergrad

\* The event the consumer is processing.
Event == sentLog[cons.n]

\* complete_verification returns Err: the loop's "if let Err" branch is next.
Failed(c) == [c EXCEPT !.pc = "cv_error_dm", !.result = "Err", !.attrs = NoAttrs]

\* verify_start of subject s for token t when s is linked to the requester
\* at the provider, run without interleaving: lookup, identities, send, remove.
VerifyStartLinked(t, s) ==
    /\ LookupVerification(pending, t) # <<>>
    /\ sentLog' = Append(sentLog, Completion(pending[t], s, t))
    /\ pending' = Remove(pending, t)
    /\ UNCHANGED <<now, nextToken, issued, rcvd, redisLink, webVars, botVars>>

\* Mutant of Recv: each event is handed to a task of its own, so the next
\* recv() does not wait for complete_verification.
RecvSpawning ==
    /\ rcvd < Len(sentLog)
    /\ rcvd' = rcvd + 1
    /\ cons' = [IdleCons EXCEPT !.pc = "cv_member", !.n = rcvd + 1]
    /\ UNCHANGED <<setup, setupSessions, parked, drift, now, nextToken, pending, issued, sentLog, redisLink, webVars,
                   unv, redisGuild, guildRoles, memberRoles>>

\* "while let Some(completion) = verification_rx.recv().await": the loop is
\* back at recv() only when the previous complete_verification (and its error
\* message) is over.
Recv ==
    /\ cons.pc = "idle"
    /\ rcvd < Len(sentLog)
    /\ rcvd' = rcvd + 1
    /\ cons' = [IdleCons EXCEPT !.pc = "cv_member", !.n = rcvd + 1]
    /\ UNCHANGED <<setup, setupSessions, parked, drift, now, nextToken, pending, issued, sentLog, redisLink, webVars,
                   unv, redisGuild, guildRoles, memberRoles>>

\* Line 118: guild_id.member(http, discord_user_id).await?
CvMember(ok) ==
    /\ cons.pc = "cv_member"
    /\ cons' = IF ok THEN [cons EXCEPT !.pc = "cv_config"] ELSE Failed(cons)
    /\ UNCHANGED <<setup, setupSessions, parked, drift, now, nextToken, pending, issued, sentLog, rcvd, redisLink, webVars,
                   unv, redisGuild, guildRoles, memberRoles>>

\* Lines 120-128: load_guild_config(..).await?, then get_verified_role()?
CvLoadConfig(ok) ==
    /\ cons.pc = "cv_config"
    /\ LET cfg == Load(redisGuild, guildRoles)
       IN cons' = IF ok /\ GetVerifiedRole(cfg) # <<>>
                  THEN [cons EXCEPT !.pc = "cv_add_role", !.cfg = cfg]
                  ELSE Failed(cons)
    /\ UNCHANGED <<setup, setupSessions, parked, drift, now, nextToken, pending, issued, sentLog, rcvd, redisLink, webVars,
                   unv, redisGuild, guildRoles, memberRoles>>

\* Lines 129-130: member.add_role(http, verified_role, None).await?
CvAddVerifiedRole(ok) ==
    /\ cons.pc = "cv_add_role"
    /\ LET u == Event.discord_user_id
       IN /\ memberRoles' = AddRole(memberRoles, guildRoles, u, cons.cfg.verified, ok)
          /\ cons' = IF AddRoleOk(guildRoles, cons.cfg.verified, ok)
                     THEN [cons EXCEPT !.pc = "cv_attr_roles"]
                     ELSE Failed(cons)
    /\ UNCHANGED <<setup, setupSessions, parked, drift, now, nextToken, pending, issued, sentLog, rcvd, redisLink, webVars,
                   unv, redisGuild, guildRoles>>

\* Mutant of ShouldAssign: the mode is not consulted.
ShouldAssignAlways(cfg, key) == TRUE

\* should_assign_level_roles / should_assign_class_roles
ShouldAssign(cfg, key) ==
    \/ key \in LevelKeys /\ cfg.mode \in {"levels", "custom"}
    \/ key \in ClassKeys /\ cfg.mode \in {"classes", "custom"}

\* One attribute role: assigned when the mode asks for it, the attribute is
\* there and its role is in the loaded configuration; a failure is only logged.
AttributeRole(held, live, cfg, u, key, ok) ==
    IF ShouldAssign(cfg, key) /\ key \in DOMAIN cfg.role
    THEN AddRole(held, live, u, cfg.role[key], ok)
    ELSE held

\* Lines 132-162: get_user(..).await?, then the level role and the class role.
\* level, class: the role keys of the subject's attributes ("none": not set).
CvAttributeRoles(kcOk, level, class, lvOk, clOk) ==
    /\ cons.pc = "cv_attr_roles"
    /\ LET u == Event.discord_user_id
           h1 == AttributeRole(memberRoles, guildRoles, cons.cfg, u, level, lvOk)
           h2 == AttributeRole(h1, guildRoles, cons.cfg, u, class, clOk)
       IN IF kcOk
          THEN /\ memberRoles' = h2
               /\ cons' = [cons EXCEPT !.pc = "cv_set_at",
                                       !.attrs = [level |-> level, class |-> class]]
          ELSE /\ memberRoles' = memberRoles
               /\ cons' = Failed(cons)
    /\ UNCHANGED <<setup, setupSessions, parked, drift, now, nextToken, pending, issued, sentLog, rcvd, redisLink, webVars,
                   unv, redisGuild, guildRoles>>

\* Lines 168-172: SET discord:<id>:verified_at. The fetched Keycloak user is
\* not used from here on.
CvSetVerifiedAt(ok) ==
    /\ cons.pc = "cv_set_at"
    /\ redisLink' = IF ok THEN SetVerifiedAt(redisLink, Event.discord_user_id, now)
                    ELSE redisLink
    /\ cons' = IF ok THEN [cons EXCEPT !.pc = "cv_set_dk", !.attrs = NoAttrs]
                ELSE Failed(cons)
    /\ UNCHANGED <<setup, setupSessions, parked, drift, now, nextToken, pending, issued, sentLog, rcvd, webVars,
                   unv, redisGuild, guildRoles, memberRoles>>

\* Lines 174-178: SET discord:<id>:keycloak
CvSetDiscordKeycloak(ok) ==
    /\ cons.pc = "cv_set_dk"
    /\ redisLink' = IF ok THEN SetDiscordKeycloak(redisLink, Event.discord_user_id,
                                                  Event.keycloak_user_id)
                    ELSE redisLink
    /\ cons' = IF ok THEN [cons EXCEPT !.pc = "cv_set_kd"] ELSE Failed(cons)
    /\ UNCHANGED <<setup, setupSessions, parked, drift, now, nextToken, pending, issued, sentLog, rcvd, webVars,
                   unv, redisGuild, guildRoles, memberRoles>>

\* Lines 180-187: SET keycloak:<id>:discord, then on to the notifications.
CvSetKeycloakDiscord(ok) ==
    /\ cons.pc = "cv_set_kd"
    /\ redisLink' = IF ok THEN SetKeycloakDiscord(redisLink, Event.keycloak_user_id,
                                                  Event.discord_user_id)
                    ELSE redisLink
    /\ cons' = IF ok THEN [cons EXCEPT !.pc = IF cons.cfg.log THEN "cv_log" ELSE "cv_dm"]
               ELSE Failed(cons)
    /\ UNCHANGED <<setup, setupSessions, parked, drift, now, nextToken, pending, issued, sentLog, rcvd, webVars,
                   unv, redisGuild, guildRoles, memberRoles>>

\* Lines 186-220: the "User Verified" embed for the log channel; a failure is
\* only logged.
CvLog(ok) ==
    /\ cons.pc = "cv_log"
    /\ cons' = [cons EXCEPT !.pc = "cv_dm",
                            !.msgs = IF ok THEN @ \cup {"log"} ELSE @]
    /\ UNCHANGED <<setup, setupSessions, parked, drift, now, nextToken, pending, issued, sentLog, rcvd, redisLink, webVars,
                   unv, redisGuild, guildRoles, memberRoles>>

\* Lines 222-230: direct_message(.."successfully verified"..).await?, Ok(())
CvDm(ok) ==
    /\ cons.pc = "cv_dm"
    /\ cons' = IF ok
               THEN [cons EXCEPT !.pc = "idle", !.result = "Ok", !.cfg = NoConfig,
                                 !.msgs = @ \cup {"success"}]
               ELSE Failed(cons)
    /\ UNCHANGED <<setup, setupSessions, parked, drift, now, nextToken, pending, issued, sentLog, rcvd, redisLink, webVars,
                   unv, redisGuild, guildRoles, memberRoles>>

\* bot/mod.rs lines 110-129: the "Verification failed" direct message; its
\* own failure is only logged.
CvErrorDmEndsLoop(ok) ==
    /\ cons.pc = "cv_error_dm"
    /\ cons' = IF ok THEN [cons EXCEPT !.pc = "idle", !.cfg = NoConfig, !.msgs = @ \cup {"failed"}]
                     ELSE NoConsumer
    /\ UNCHANGED <<setup, setupSessions, parked, drift, now, nextToken, pending, issued, sentLog, rcvd, redisLink, webVars,
                   unv, redisGuild, guildRoles, memberRoles>>

CvErrorDm(ok) ==
    /\ cons.pc = "cv_error_dm"
    /\ cons' = [cons EXCEPT !.pc = "idle", !.cfg = NoConfig,
                            !.msgs = IF ok THEN @ \cup {"failed"} ELSE @]
    /\ UNCHANGED <<setup, setupSessions, parked, drift, now, nextToken, pending, issued, sentLog, rcvd, redisLink, webVars,
                   unv, redisGuild, guildRoles, memberRoles>>

\* ------------------------------------------------------- bot: /unverify
\* DEL keycloak:<s>:discord, DEL discord:<u>:keycloak, DEL discord:<u>:verified_at
DelKeycloakDiscord(link, s) == [link EXCEPT !.kd = Remove(link.kd, s)]
DelDiscordKeycloak(link, u) == [link EXCEPT !.dk = Remove(link.dk, u)]
DelVerifiedAt(link, u) == [link EXCEPT !.at = Remove(link.at, u)]

\* The handler returns: its reply (or error) is kept, its locals are dropped.
UnvDone(reply) == [IdleUnv EXCEPT !.n = unv.n, !.target = unv.target, !.reply = reply]

\* Lines 33-88: the permission check, then GET discord:<target>:keycloak.
\* allowed: the caller is the target or an administrator.
UnverifyCommand(target, allowed, getOk) ==
    /\ unv.pc = "idle"
    /\ unv.n < MaxUnverify
    /\ LET me == [IdleUnv EXCEPT !.n = unv.n + 1, !.target = target]
           kc == Lookup(redisLink.dk, target)
       IN unv' = IF ~allowed THEN [me EXCEPT !.reply = "need_admin"]
                 ELSE IF ~getOk THEN [me EXCEPT !.reply = "error"]
                 ELSE IF kc = <<>> THEN [me EXCEPT !.reply = "not_verified"]
                 ELSE [me EXCEPT !.pc = "uv_del_kd", !.kc = kc[1]]
    /\ UNCHANGED <<setup, setupSessions, parked, drift, now, nextToken, pending, issued, sentLog, rcvd, redisLink, webVars,
                   cons, redisGuild, guildRoles, memberRoles>>

\* Lines 90-94: DEL keycloak:<id>:discord
UnverifyDelKd(ok) ==
    /\ unv.pc = "uv_del_kd"
    /\ redisLink' = IF ok THEN DelKeycloakDiscord(redisLink, unv.kc) ELSE redisLink
    /\ unv' = IF ok THEN [unv EXCEPT !.pc = "uv_del_dk"] ELSE UnvDone("error")
    /\ UNCHANGED <<setup, setupSessions, parked, drift, now, nextToken, pending, issued, sentLog, rcvd, webVars,
                   cons, redisGuild, guildRoles, memberRoles>>

\* Lines 96-99: DEL discord:<id>:keycloak
UnverifyDelDk(ok) ==
    /\ unv.pc = "uv_del_dk"
    /\ redisLink' = IF ok THEN DelDiscordKeycloak(redisLink, unv.target) ELSE redisLink
    /\ unv' = IF ok THEN [unv EXCEPT !.pc = "uv_del_at"] ELSE UnvDone("error")
    /\ UNCHANGED <<setup, setupSessions, parked, drift, now, nextToken, pending, issued, sentLog, rcvd, webVars,
                   cons, redisGuild, guildRoles, memberRoles>>

\* Lines 101-104: DEL discord:<id>:verified_at
UnverifyDelAt(ok) ==
    /\ unv.pc = "uv_del_at"
    /\ redisLink' = IF ok THEN DelVerifiedAt(redisLink, unv.target) ELSE redisLink
    /\ unv' = IF ok THEN [unv EXCEPT !.pc = "uv_roles"] ELSE UnvDone("error")
    /\ UNCHANGED <<setup, setupSessions, parked, drift, now, nextToken, pending, issued, sentLog, rcvd, webVars,
                   cons, redisGuild, guildRoles, memberRoles>>

\* Lines 106-179: the member, then with the configuration (if it loads) the
\* verified role (remove_role(..).await?) and the level and class roles the
\* member holds (failures only logged), the log message, the reply.
UnverifyRoles(memberOk, cfgOk, rmOk, extraOk) ==
    /\ unv.pc = "uv_roles"
    /\ LET cfg == Load(redisGuild, guildRoles)
           held == memberRoles[unv.target]
           v == GetVerifiedRole(cfg)
           hasV == v # <<>> /\ v[1] \in held
           extra == {cfg.role[k] : k \in DOMAIN cfg.role} \cap held
           gone == (IF hasV THEN {v[1]} ELSE {}) \cup (IF extraOk THEN extra ELSE {})
       IN IF ~memberOk THEN /\ unv' = UnvDone("error")
                            /\ memberRoles' = memberRoles
          ELSE IF ~cfgOk THEN /\ unv' = UnvDone("removed")
                              /\ memberRoles' = memberRoles
          ELSE IF hasV /\ ~rmOk THEN /\ unv' = UnvDone("error")
                                     /\ memberRoles' = memberRoles
          ELSE /\ unv' = UnvDone("removed")
               /\ memberRoles' = [memberRoles EXCEPT ![unv.target] = held \ gone]
    /\ UNCHANGED <<setup, setupSessions, parked, drift, now, nextToken, pending, issued, sentLog, rcvd, redisLink, webVars,
                   cons, redisGuild, guildRoles>>

\* ------------------------------------------------------- bot: specification
\* The store outlives the process: the server may be unconfigured, have a
\* verified role only, or a verified role, a log channel and level roles.
GuildConfigs ==
    {NoGuildConfig,
     [NoConfig EXCEPT !.verified = VerifiedRole],
     [verified |-> VerifiedRole, mode |-> "levels", log |-> TRUE,
      role |-> [k \in {"level:Undergrad"} |-> UndergradRole]]}

BotInit ==
    /\ now = 0
    /\ nextToken = 1
    /\ pending = <<>>
    /\ redisVerify = <<>>
    /\ issued = <<>>
    /\ fed = [s \in Subjects |-> NoUser]
    /\ session = [s \in {} |-> UnknownToken]
    /\ req = [r \in ReqIds |-> IdleReq]
    /\ sentLog = <<>>
    /\ rcvd = 0
    /\ redisLink = NoLinks
    /\ lastResp = NoResp
    /\ cons = IdleCons
    /\ unv = IdleUnv
    /\ redisGuild \in GuildConfigs
    /\ guildRoles = [r \in {VerifiedRole, UndergradRole} |->
                        IF r = VerifiedRole THEN "Verified" ELSE "Undergrad"]
    /\ memberRoles = [u \in Users |-> {}]
    /\ setup = IdleSetup
    /\ setupSessions = <<>>
    /\ parked = NoParked
    /\ drift = 0

BotNext ==
    \/ \E u \in Users, g \in Guilds : VerifyCommand(u, g, TRUE)
    \/ \E u \in Users, ok \in BOOLEAN : VerifyCommandAlreadyVerified(u, ok)
    \/ \E t \in DOMAIN issued, s \in Subjects : VerifyStartLinked(t, s)
    \/ Recv
    \/ \E ok \in BOOLEAN : CvMember(ok)
    \/ \E ok \in BOOLEAN : CvLoadConfig(ok)
    \/ \E ok \in BOOLEAN : CvAddVerifiedRole(ok)
    \/ \E kcOk \in BOOLEAN, level \in {"none", "level:Undergrad"},
          class \in {"none", "class:Senior"}, lvOk \in BOOLEAN, clOk \in BOOLEAN :
          CvAttributeRoles(kcOk, level, class, lvOk, clOk)
    \/ \E ok \in BOOLEAN : CvSetVerifiedAt(ok)
    \/ \E ok \in BOOLEAN : CvSetDiscordKeycloak(ok)
    \/ \E ok \in BOOLEAN : CvSetKeycloakDiscord(ok)
    \/ \E ok \in BOOLEAN : CvLog(ok)
    \/ \E ok \in BOOLEAN : CvDm(ok)
    \/ \E ok \in BOOLEAN : CvErrorDm(ok)
    \/ \E u \in Users, allowed \in BOOLEAN, ok \in BOOLEAN : UnverifyCommand(u, allowed, ok)
    \/ \E ok \in BOOLEAN : UnverifyDelKd(ok)
    \/ \E ok \in BOOLEAN : UnverifyDelDk(ok)
    \/ \E ok \in BOOLEAN : UnverifyDelAt(ok)
    \/ \E memberOk \in BOOLEAN, cfgOk \in BOOLEAN, rmOk \in BOOLEAN, extraOk \in BOOLEAN :
          UnverifyRoles(memberOk, cfgOk, rmOk, extraOk)
    \/ Tick

BotSpec == BotInit /\ [][BotNext]_vars

\* ------------------------------------------- bot: the roles of attributes
\* The consumer on servers that store a level role and a class role
\* together, under each mode: a custom selection of both, or keys that a
\* switch of mode through None left behind.
SeniorRole == 4
BothRoles ==
    [k \in {"level:Undergrad", "class:Senior"} |->
        IF k = "level:Undergrad" THEN UndergradRole ELSE SeniorRole]
AttrConfigs ==
    {[verified |-> VerifiedRole, mode |-> mode, log |-> FALSE, role |-> BothRoles] :
        mode \in {"none", "levels", "classes", "custom"}}

AttrInit ==
    /\ now = 0
    /\ nextToken = 1
    /\ pending = <<>>
    /\ redisVerify = <<>>
    /\ issued = <<>>
    /\ fed = [s \in Subjects |-> NoUser]
    /\ session = [s \in {} |-> UnknownToken]
    /\ req = [r \in ReqIds |-> IdleReq]
    /\ sentLog = <<>>
    /\ rcvd = 0
    /\ redisLink = NoLinks
    /\ lastResp = NoResp
    /\ cons = IdleCons
    /\ unv = IdleUnv
    /\ redisGuild \in AttrConfigs
    /\ guildRoles = [r \in {VerifiedRole, UndergradRole, SeniorRole} |->
                        CASE r = VerifiedRole -> "Verified"
                          [] r = UndergradRole -> "Undergrad"
                          [] OTHER -> "Senior"]
    /\ memberRoles = [u \in Users |-> {}]
    /\ setup = IdleSetup
    /\ setupSessions = <<>>
    /\ parked = NoParked
    /\ drift = 0

AttrNext ==
    \/ \E u \in Users, g \in Guilds : VerifyCommand(u, g, TRUE)
    \/ \E t \in DOMAIN issued, s \in Subjects : VerifyStartLinked(t, s)
    \/ Recv
    \/ \E ok \in BOOLEAN : CvMember(ok)
    \/ \E ok \in BOOLEAN : CvLoadConfig(ok)
    \/ \E ok \in BOOLEAN : CvAddVerifiedRole(ok)
    \/ \E kcOk \in BOOLEAN, level \in {"none", "level:Undergrad", "level:Graduate"},
          class \in {"none", "class:Senior"}, lvOk \in BOOLEAN, clOk \in BOOLEAN :
          CvAttributeRoles(kcOk, level, class, lvOk, clOk)
    \/ \E ok \in BOOLEAN : CvSetVerifiedAt(ok)
    \/ \E ok \in BOOLEAN : CvSetDiscordKeycloak(ok)
    \/ \E ok \in BOOLEAN : CvSetKeycloakDiscord(ok)
    \/ \E ok \in BOOLEAN : CvDm(ok)
    \/ \E ok \in BOOLEAN : CvErrorDm(ok)

AttrSpec == AttrInit /\ [][AttrNext]_vars

\* One step of the consumer task tokio::spawn starts in bot::run: the receive
\* of the loop or the return of the call the task is waiting for.
ConsumerTask ==
    \/ Recv
    \/ \E ok \in BOOLEAN : CvMember(ok)
    \/ \E ok \in BOOLEAN : CvLoadConfig(ok)
    \/ \E ok \in BOOLEAN : CvAddVerifiedRole(ok)
    \/ \E kcOk \in BOOLEAN, level \in {"none", "level:Undergrad", "level:Graduate"},
          class \in {"none", "class:Senior"}, lvOk \in BOOLEAN, clOk \in BOOLEAN :
          CvAttributeRoles(kcOk, level, class, lvOk, clOk)
    \/ \E ok \in BOOLEAN : CvSetVerifiedAt(ok)
    \/ \E ok \in BOOLEAN : CvSetDiscordKeycloak(ok)
    \/ \E ok \in BOOLEAN : CvSetKeycloakDiscord(ok)
    \/ \E ok \in BOOLEAN : CvDm(ok)
    \/ \E ok \in BOOLEAN : CvErrorDm(ok)

\* The consumer of AttrSpec under the scheduling of the runtime: a spawned task
\* that can take a step is polled again, and every call it awaits returns, with
\* Ok or with Err.
LiveSpec == AttrInit /\ [][AttrNext]_vars /\ WF_vars(ConsumerTask)

TypeBot == cons.pc \in {"idle", "cv_member", "cv_config", "cv_add_role", "cv_attr_roles",
                        "cv_set_at", "cv_set_dk", "cv_set_kd", "cv_log", "cv_dm", "cv_error_dm"}

\* =========================================================== role reconciler
\* SetupRolesSession::save_and_create_roles step by step, the commands that
\* write the server's role configuration, and what administrators do to the
\* server's roles in Discord.

MaxCommits == 2     \* save steps of the role wizard ever started
MaxDrift == 1       \* changes administrators make to the roles in Discord

\* (display name, role key) in the order of the code's tables.
LevelRoles == << <<"Undergrad", "level:Undergrad">>, <<"Graduate", "level:Graduate">> >>
ClassRoles == << <<"First-Year", "class:First-Year">>, <<"Sophomore", "class:Sophomore">>,
                 <<"Junior", "class:Junior">>, <<"Senior", "class:Senior">>,
                 <<"Fifth-Year Senior", "class:Fifth-Year Senior">>,
                 <<"Masters", "class:Masters">>, <<"Doctoral", "class:Doctoral">> >>
AllRoles == LevelRoles \o ClassRoles

\* The custom branch's match on the second part of a selection "a:b".
CustomChoice(part) ==
    CASE part = "undergrad" -> << <<"Undergrad", "level:Undergrad">> >>
      [] part = "graduate" -> << <<"Graduate", "level:Graduate">> >>
      [] part = "first-year" -> << <<"First-Year", "class:First-Year">> >>
      [] part = "sophomore" -> << <<"Sophomore", "class:Sophomore">> >>
      [] part = "junior" -> << <<"Junior", "class:Junior">> >>
      [] part = "senior" -> << <<"Senior", "class:Senior">> >>
      [] part = "fifth-year" -> << <<"Fifth-Year Senior", "class:Fifth-Year Senior">> >>
      [] part = "masters" -> << <<"Masters", "class:Masters">> >>
      [] part = "doctoral" -> << <<"Doctoral", "class:Doctoral">> >>
      [] OTHER -> <<>>

\* filter_map over custom_roles; a selection is given by its parts, the
\* result of split(':'): anything but two parts, or an unknown second part,
\* is dropped.
RECURSIVE CustomRoles(_)
CustomRoles(sel) ==
    IF sel = <<>> THEN <<>>
    ELSE (IF Len(Head(sel)) = 2 THEN CustomChoice(Head(sel)[2]) ELSE <<>>)
         \o CustomRoles(Tail(sel))

\* SetupRolesSession::get_roles_to_create
GetRolesToCreate(mode, custom) ==
    CASE mode = "levels" -> LevelRoles
      [] mode = "classes" -> ClassRoles
      [] mode = "custom" -> CustomRoles(custom)
      [] OTHER -> <<>>

\* Mutant of Validate: every session is accepted.
ValidateAlways(mode, custom) == TRUE

\* SetupRolesSession::validate
Validate(mode, custom) == ~(mode = "custom" /\ custom = <<>>)

\* The elements of a sequence that satisfy a test, in order.
RECURSIVE Filter(_, _)
Filter(seq, keep) ==
    IF seq = <<>> THEN <<>>
    ELSE (IF keep[Head(seq)] THEN <<Head(seq)>> ELSE <<>>) \o Filter(Tail(seq), keep)

\* The (role key, role id) pairs stored for the keys of a table, in order.
RECURSIVE StoredRoles(_, _)
StoredRoles(table, store) ==
    IF table = <<>> THEN <<>>
    ELSE (IF Head(table)[2] \in DOMAIN store.role
          THEN << <<Head(table)[2], store.role[Head(table)[2]]>> >> ELSE <<>>)
         \o StoredRoles(Tail(table), store)

\* SetupRolesSession::get_current_roles: the keys the stored mode covers.
GetCurrentRoles(current_mode, store) ==
    CASE current_mode = "levels" -> StoredRoles(LevelRoles, store)
      [] current_mode = "classes" -> StoredRoles(ClassRoles, store)
      [] current_mode = "custom" -> StoredRoles(AllRoles, store)
      [] OTHER -> <<>>

\* The second components, resp. first components, of a sequence of pairs.
Keys(desired) == {desired[j][2] : j \in DOMAIN desired}
CurrentKeys(current) == {current[j][1] : j \in DOMAIN current}

\* roles_to_keep, roles_to_delete, roles_to_create (lines 127-151)
RolesToKeep(current, desired) ==
    Filter(current, [c \in {current[j] : j \in DOMAIN current} |-> c[1] \in Keys(desired)])
RolesToDelete(current, desired) ==
    Filter(current, [c \in {current[j] : j \in DOMAIN current} |-> c[1] \notin Keys(desired)])
RolesToCreate(current, desired) ==
    Filter(desired, [d \in {desired[j] : j \in DOMAIN desired} |-> d[2] \notin CurrentKeys(current)])

\* What the role wizard of the operator at work and the administrators
\* never touch.
linkVars == <<now, nextToken, pending, issued, sentLog, rcvd, redisLink, webVars, cons, unv,
             parked>>

\* Role ids are snowflakes: a new role gets an id no role ever had.
MaxOf(ids) == IF ids = {} THEN 0 ELSE CHOOSE x \in ids : \A y \in ids : y <= x
KnownRoles ==
    DOMAIN guildRoles \cup DOMAIN setup.guild \cup DOMAIN parked.setup.guild
    \cup {redisGuild.verified}
    \cup {redisGuild.role[k] : k \in DOMAIN redisGuild.role}
    \cup {setup.current[j][2] : j \in DOMAIN setup.current}
    \cup UNION {memberRoles[u] : u \in Users}
FreshRole == MaxOf(KnownRoles) + 1

\* The run moves on: to the next item of the loop it is in, or to the next
\* loop that has an item, or to the final SET of role_mode.
Loops == <<"s_delete_role", "s_create_role", "s_keep">>
LoopItems(st, pc) ==
    CASE pc = "s_delete_role" -> st.to_delete
      [] pc = "s_create_role" -> st.to_create
      [] OTHER -> st.to_keep
LoopOf(pc) ==
    CASE pc = "s_current" -> 0
      [] pc \in {"s_delete_role", "s_delete_key"} -> 1
      [] pc \in {"s_create_role", "s_create_key"} -> 2
      [] OTHER -> 3
RECURSIVE EnterLoop(_, _)
EnterLoop(st, l) ==
    IF l > 3 THEN [st EXCEPT !.pc = "s_set_mode", !.i = 0]
    ELSE IF LoopItems(st, Loops[l]) # <<>> THEN [st EXCEPT !.pc = Loops[l], !.i = 1]
    ELSE EnterLoop(st, l + 1)
NextItem(st) ==
    LET l == LoopOf(st.pc)
    IN IF l > 0 /\ st.i < Len(LoopItems(st, Loops[l]))
       THEN [st EXCEPT !.pc = Loops[l], !.i = st.i + 1]
       ELSE EnterLoop(st, l + 1)

\* save_and_create_roles returns to handle_save_roles.
Returned(st, result) ==
    [st EXCEPT !.pc = "s_return", !.result = result,
               !.clean = st.clean /\ result = "Ok"]

\* What is left of a save step once its handler has returned: its
\* session, its result, and the drift0 it started at.
LastRun(st) == [mode |-> st.mode, custom |-> st.custom, result |-> st.result,
                drift0 |-> st.drift0]
Finished(st) ==
    [IdleSetup EXCEPT !.n = st.n, !.mode = st.mode, !.custom = st.custom,
                      !.result = st.result, !.drift0 = st.drift0]

\* The positions of a wizard handler at which its binding `sessions`, a
\* guard of the setuproles_sessions lock, is alive, and those at which the
\* handler awaits an answer from Discord or Redis.
GuardedPcs == {"c_ack"}
AwaitPcs == {"c_ack", "s_guild", "s_mode", "s_current", "s_delete_role", "s_delete_key",
             "s_create_role", "s_create_key", "s_keep", "s_keep_key", "s_set_mode"}

\* setuproles_sessions.read().await and .write().await return once no
\* other task holds a write guard (the guards a handler takes for one
\* statement block never meet one another here).
SessionsFree == parked.setup.pc \notin GuardedPcs

\* handle_mode_selection lines 171-178: a session for the selected mode
\* replaces the operator's session.
SelectMode(mode) ==
    /\ setup.pc = "idle"
    /\ setup.n < MaxCommits
    /\ SessionsFree
    /\ setupSessions' = <<NewSession(mode)>>
    /\ UNCHANGED <<linkVars, setup, drift, redisGuild, guildRoles, memberRoles>>

\* handle_custom_roles_selection lines 387-391: `let mut sessions =
\* ...write().await`, then set_custom_roles on the session, if there is
\* one; the multiselect is shown by the custom wizard. The guard lives to
\* the end of the function.
SelectCustomRoles(sel) ==
    /\ setup.pc = "idle"
    /\ setup.n < MaxCommits
    /\ SessionsFree
    /\ setupSessions # <<>>
    /\ setupSessions[1].mode = "custom"
    /\ setupSessions' = <<[setupSessions[1] EXCEPT !.custom = sel]>>
    /\ setup' = [setup EXCEPT !.pc = "c_ack"]
    /\ UNCHANGED <<linkVars, drift, redisGuild, guildRoles, memberRoles>>

\* Lines 394-398: interaction.create_response(Acknowledge).await?, then the
\* function ends, with Ok or with the error, and the guard is dropped.
SelectAck(ok) ==
    /\ setup.pc = "c_ack"
    /\ setup' = [setup EXCEPT !.pc = "idle"]
    /\ UNCHANGED <<linkVars, setupSessions, drift, redisGuild, guildRoles, memberRoles>>

\* handle_save_roles lines 402-458: the session is cloned out of the table,
\* validate(), then the call. No session: "Session expired".
SaveStart ==
    /\ setup.pc = "idle"
    /\ setup.n < MaxCommits
    /\ SessionsFree
    /\ LET st == [IdleSetup EXCEPT !.n = setup.n + 1, !.drift0 = drift,
                                   !.prev = LastRun(setup)]
       IN setup' =
            IF setupSessions = <<>> THEN [st EXCEPT !.result = "Expired"]
            ELSE LET cloned == setupSessions[1]
                     run == [st EXCEPT !.mode = cloned.mode, !.custom = cloned.custom]
                 IN IF Validate(cloned.mode, cloned.custom)
                    THEN [run EXCEPT !.pc = "s_guild"]
                    ELSE [run EXCEPT !.result = "Invalid"]
    /\ UNCHANGED <<linkVars, setupSessions, drift, redisGuild, guildRoles, memberRoles>>

\* handle_save_roles lines 459-481: on Err the error is shown and the
\* handler returns; on Ok the session is removed from the table.
SaveReturn ==
    /\ setup.pc = "s_return"
    /\ (setup.result = "Ok" => SessionsFree)
    /\ setupSessions' = IF setup.result = "Ok" THEN <<>> ELSE setupSessions
    /\ setup' = Finished(setup)
    /\ UNCHANGED <<linkVars, drift, redisGuild, guildRoles, memberRoles>>

\* Line 108: guild_id.to_partial_guild(http).await?
SaveGuild(ok) ==
    /\ setup.pc = "s_guild"
    /\ setup' = IF ok THEN [setup EXCEPT !.pc = "s_mode", !.guild = guildRoles]
                ELSE Returned(setup, "Err")
    /\ UNCHANGED <<linkVars, setupSessions, drift, redisGuild, guildRoles, memberRoles>>

\* Lines 110-113: GET guild:<id>:role_mode
SaveGetMode(ok) ==
    /\ setup.pc = "s_mode"
    /\ setup' = IF ok THEN [setup EXCEPT !.pc = "s_current", !.current_mode = redisGuild.mode]
                ELSE Returned(setup, "Err")
    /\ UNCHANGED <<linkVars, setupSessions, drift, redisGuild, guildRoles, memberRoles>>

\* Lines 115-151: get_current_roles, get_roles_to_create, the three diffs.
SaveGetCurrent(ok) ==
    /\ setup.pc = "s_current"
    /\ LET current == GetCurrentRoles(setup.current_mode, redisGuild)
           desired == GetRolesToCreate(setup.mode, setup.custom)
           st == [setup EXCEPT !.current = current, !.desired = desired,
                               !.to_keep = RolesToKeep(current, desired),
                               !.to_delete = RolesToDelete(current, desired),
                               !.to_create = RolesToCreate(current, desired)]
       IN setup' = IF ok THEN EnterLoop(st, 1) ELSE Returned(setup, "Err")
    /\ UNCHANGED <<linkVars, setupSessions, drift, redisGuild, guildRoles, memberRoles>>

\* Discord deletes a role: it leaves the server and every member.
DeleteRole(live, r) == Remove(live, r)
DropFromMembers(held, r) == [u \in Users |-> held[u] \ {r}]

\* Lines 154-166: delete_role for a role the fetched guild has (a failure is
\* only logged); a role the fetched guild lacks is taken as already deleted.
SaveDeleteRole(ok) ==
    /\ setup.pc = "s_delete_role"
    /\ LET role_id == setup.to_delete[setup.i][2]
           called == role_id \in DOMAIN setup.guild
           deleted == called /\ ok /\ role_id \in DOMAIN guildRoles
       IN /\ guildRoles' = IF deleted THEN DeleteRole(guildRoles, role_id) ELSE guildRoles
          /\ memberRoles' = IF deleted THEN DropFromMembers(memberRoles, role_id)
                            ELSE memberRoles
          /\ setup' = [setup EXCEPT !.pc = "s_delete_key",
                          !.calls = IF called THEN Append(@, "delete_role") ELSE @,
                          !.clean = @ /\ (called => deleted)]
    /\ UNCHANGED <<linkVars, setupSessions, drift, redisGuild>>

\* Lines 168-170: DEL guild:<id>:role:<key>, whatever delete_role did.
SaveDeleteKey(ok) ==
    /\ setup.pc = "s_delete_key"
    /\ LET role_key == setup.to_delete[setup.i][1]
       IN IF ok
          THEN /\ redisGuild' = [redisGuild EXCEPT !.role = Remove(@, role_key)]
               /\ setup' = NextItem(setup)
          ELSE /\ redisGuild' = redisGuild
               /\ setup' = Returned(setup, "Err")
    /\ UNCHANGED <<linkVars, setupSessions, drift, guildRoles, memberRoles>>

\* guild.roles.iter().find(|r| r.name == *role_name): the roles of the
\* fetched guild that bear the name.
Named(guild, name) == {r \in DOMAIN guild : guild[r] = name}

\* Lines 176-198: a role of that name in the fetched guild is reused, else
\* create_role(..).await?; the id is pushed on all_roles.
SaveCreateRole(ok) ==
    /\ setup.pc = "s_create_role"
    /\ LET role_name == setup.to_create[setup.i][1]
           role_key == setup.to_create[setup.i][2]
           existing == Named(setup.guild, role_name)
       IN IF existing # {}
          THEN /\ \E r \in existing :
                     setup' = [setup EXCEPT !.pc = "s_create_key", !.new_id = r,
                                            !.all_roles = Append(@, <<role_key, r>>)]
               /\ guildRoles' = guildRoles
          ELSE IF ok
          THEN /\ guildRoles' = Insert(guildRoles, FreshRole, role_name)
               /\ setup' = [setup EXCEPT !.pc = "s_create_key", !.new_id = FreshRole,
                                         !.all_roles = Append(@, <<role_key, FreshRole>>),
                                         !.calls = Append(@, "create_role")]
          ELSE /\ guildRoles' = guildRoles
               /\ setup' = Returned([setup EXCEPT !.calls = Append(@, "create_role")], "Err")
    /\ UNCHANGED <<linkVars, setupSessions, drift, redisGuild, memberRoles>>

\* Lines 200-202: SET guild:<id>:role:<key> <role id>
SaveCreateKey(ok) ==
    /\ setup.pc = "s_create_key"
    /\ LET role_key == setup.to_create[setup.i][2]
       IN IF ok
          THEN /\ redisGuild' = [redisGuild EXCEPT !.role = Insert(@, role_key, setup.new_id)]
               /\ setup' = NextItem([setup EXCEPT !.new_id = NoRole])
          ELSE /\ redisGuild' = redisGuild
               /\ setup' = Returned(setup, "Err")
    /\ UNCHANGED <<linkVars, setupSessions, drift, guildRoles, memberRoles>>

\* The display name desired_roles gives a key (role_key_to_name).
NameOfKey(desired, key) ==
    LET j == CHOOSE x \in DOMAIN desired : desired[x][2] = key IN desired[j][1]

\* Lines 206-233: a kept role the fetched guild lacks is created again under
\* its display name; one it has is pushed on all_roles as it is.
SaveKeep(ok) ==
    /\ setup.pc = "s_keep"
    /\ LET role_key == setup.to_keep[setup.i][1]
           role_id == setup.to_keep[setup.i][2]
       IN IF role_id \in DOMAIN setup.guild
          THEN /\ guildRoles' = guildRoles
               /\ setup' = NextItem([setup EXCEPT !.all_roles = Append(@, <<role_key, role_id>>)])
          ELSE IF ok
          THEN /\ guildRoles' = Insert(guildRoles, FreshRole, NameOfKey(setup.desired, role_key))
               /\ setup' = [setup EXCEPT !.pc = "s_keep_key", !.new_id = FreshRole,
                                         !.calls = Append(@, "create_role")]
          ELSE /\ guildRoles' = guildRoles
               /\ setup' = Returned([setup EXCEPT !.calls = Append(@, "create_role")], "Err")
    /\ UNCHANGED <<linkVars, setupSessions, drift, redisGuild, memberRoles>>

\* Mutant of SaveKeepKey: the id of the recreated role is not stored.
SaveKeepKeyNotStored(ok) ==
    /\ setup.pc = "s_keep_key"
    /\ setup' = IF ok THEN NextItem([setup EXCEPT !.new_id = NoRole])
                ELSE Returned(setup, "Err")
    /\ UNCHANGED <<linkVars, setupSessions, drift, redisGuild, guildRoles, memberRoles>>

\* Lines 225-229: SET guild:<id>:role:<key> <new id>, then the push.
SaveKeepKey(ok) ==
    /\ setup.pc = "s_keep_key"
    /\ LET role_key == setup.to_keep[setup.i][1]
       IN IF ok
          THEN /\ redisGuild' = [redisGuild EXCEPT !.role = Insert(@, role_key, setup.new_id)]
               /\ setup' = NextItem([setup EXCEPT !.new_id = NoRole,
                                       !.all_roles = Append(@, <<role_key, setup.new_id>>)])
          ELSE /\ redisGuild' = redisGuild
               /\ setup' = Returned(setup, "Err")
    /\ UNCHANGED <<linkVars, setupSessions, drift, guildRoles, memberRoles>>

\* Lines 236-240: SET guild:<id>:role_mode <mode>, Ok(all_roles)
SaveSetMode(ok) ==
    /\ setup.pc = "s_set_mode"
    /\ IF ok
       THEN /\ redisGuild' = [redisGuild EXCEPT !.mode = setup.mode]
            /\ setup' = Returned(setup, "Ok")
       ELSE /\ redisGuild' = redisGuild
            /\ setup' = Returned(setup, "Err")
    /\ UNCHANGED <<linkVars, setupSessions, drift, guildRoles, memberRoles>>

\* handle_mode_selection lines 143-169: "none" is saved at once, with no
\* session and no reconciliation.
SelectNone(ok) ==
    /\ setup.pc = "idle"
    /\ setup.n < MaxCommits
    /\ setup' = [IdleSetup EXCEPT !.n = setup.n + 1, !.drift0 = drift,
                                  !.result = IF ok THEN "Ok" ELSE "Err"]
    /\ redisGuild' = IF ok THEN [redisGuild EXCEPT !.mode = "none"] ELSE redisGuild
    /\ UNCHANGED <<linkVars, setupSessions, drift, guildRoles, memberRoles>>

\* /setverifiedrole: a role of the server below the bot's top role is
\* stored under guild:<id>:role:verified.
SetVerifiedRole(r, ok) ==
    /\ setup.pc = "idle"
    /\ r \in DOMAIN guildRoles
    /\ redisGuild.verified # r
    /\ ok
    /\ redisGuild' = [redisGuild EXCEPT !.verified = r]
    /\ UNCHANGED <<linkVars, setupSessions, drift, setup, guildRoles, memberRoles>>

\* Administrators change the server's roles in Discord itself, between
\* runs of the wizard: they delete a role, rename one, or create one. Only
\* changes that a save step can still meet are followed.
DriftNames == {"Undergrad", "Masters"}
AdminDeleteRole(r) ==
    /\ setup.pc = "idle"
    /\ setup.n < MaxCommits
    /\ drift < MaxDrift
    /\ r \in DOMAIN guildRoles
    /\ drift' = drift + 1
    /\ guildRoles' = DeleteRole(guildRoles, r)
    /\ memberRoles' = DropFromMembers(memberRoles, r)
    /\ UNCHANGED <<linkVars, setupSessions, setup, redisGuild>>
AdminRenameRole(r, name) ==
    /\ setup.pc = "idle"
    /\ setup.n < MaxCommits
    /\ drift < MaxDrift
    /\ r \in DOMAIN guildRoles
    /\ guildRoles[r] # name
    /\ drift' = drift + 1
    /\ guildRoles' = [guildRoles EXCEPT ![r] = name]
    /\ UNCHANGED <<linkVars, setupSessions, setup, redisGuild, memberRoles>>
AdminCreateRole(name) ==
    /\ setup.pc = "idle"
    /\ setup.n < MaxCommits
    /\ drift < MaxDrift
    /\ drift' = drift + 1
    /\ guildRoles' = Insert(guildRoles, FreshRole, name)
    /\ UNCHANGED <<linkVars, setupSessions, setup, redisGuild, memberRoles>>

\* The selections of the custom wizard that are tried, as split(':') parts.
CustomSelections ==
    { << <<"level", "undergrad">> >>,
      << <<"level", "graduate">>, <<"class", "masters">> >> }
Modes == {"levels", "classes", "custom"}

\* The store and the server outlive the process. A server with its verified
\* role: before the wizard ever ran, or after the wizard saved Levels and
\* the operator then selected None (role_mode none, the level keys and the
\* level roles still there).
GraduateRole == 3
LevelsThenNone ==
    [verified |-> VerifiedRole, mode |-> "none", log |-> FALSE,
     role |-> [k \in LevelKeys |-> IF k = "level:Undergrad" THEN UndergradRole
                                   ELSE GraduateRole]]
RoleConfigs == {[NoGuildConfig EXCEPT !.verified = VerifiedRole], LevelsThenNone}
LiveRoles(store) ==
    [r \in {store.verified} \cup {store.role[k] : k \in DOMAIN store.role} |->
        CASE r = UndergradRole -> "Undergrad"
          [] r = GraduateRole -> "Graduate"
          [] OTHER -> "Verified"]

RoleInit ==
    /\ now = 0
    /\ nextToken = 1
    /\ pending = <<>>
    /\ redisVerify = <<>>
    /\ issued = <<>>
    /\ fed = [s \in Subjects |-> NoUser]
    /\ session = [s \in {} |-> UnknownToken]
    /\ req = [r \in ReqIds |-> IdleReq]
    /\ sentLog = <<>>
    /\ rcvd = 0
    /\ redisLink = NoLinks
    /\ lastResp = NoResp
    /\ cons = IdleCons
    /\ unv = IdleUnv
    /\ redisGuild \in RoleConfigs
    /\ guildRoles = LiveRoles(redisGuild)
    /\ memberRoles = [u \in Users |-> {}]
    /\ setup = IdleSetup
    /\ setupSessions = <<>>
    /\ parked = NoParked
    /\ drift = 0

RoleNext ==
    \/ \E mode \in Modes : SelectMode(mode)
    \/ \E sel \in CustomSelections : SelectCustomRoles(sel)
    \/ \E ok \in BOOLEAN : SelectAck(ok)
    \/ SaveStart
    \/ SaveReturn
    \/ \E ok \in BOOLEAN : SaveGuild(ok)
    \/ \E ok \in BOOLEAN : SaveGetMode(ok)
    \/ \E ok \in BOOLEAN : SaveGetCurrent(ok)
    \/ \E ok \in BOOLEAN : SaveDeleteRole(ok)
    \/ \E ok \in BOOLEAN : SaveDeleteKey(ok)
    \/ \E ok \in BOOLEAN : SaveCreateRole(ok)
    \/ \E ok \in BOOLEAN : SaveCreateKey(ok)
    \/ \E ok \in BOOLEAN : SaveKeep(ok)
    \/ \E ok \in BOOLEAN : SaveKeepKey(ok)
    \/ \E ok \in BOOLEAN : SaveSetMode(ok)
    \/ \E ok \in BOOLEAN : SelectNone(ok)
    \/ \E r \in DOMAIN guildRoles : SetVerifiedRole(r, TRUE)
    \/ \E r \in DOMAIN guildRoles : AdminDeleteRole(r)
    \/ \E r \in DOMAIN guildRoles, name \in DriftNames : AdminRenameRole(r, name)
    \/ \E name \in DriftNames : AdminCreateRole(name)

RoleSpec == RoleInit /\ [][RoleNext]_vars

\* Two operators of one server. Their handlers are tasks of one runtime: at
\* every await either of them may be the one that goes on; the operator at
\* work and the other one change places.
Switch ==
    /\ parked' = [setup |-> setup, session |-> setupSessions]
    /\ setup' = parked.setup
    /\ setupSessions' = parked.session
    /\ UNCHANGED <<now, nextToken, pending, issued, sentLog, rcvd, redisLink, webVars, cons,
                   unv, drift, redisGuild, guildRoles, memberRoles>>

\* A server on which the wizard saved Levels; two operators who each have
\* chosen a mode in the wizard, Levels the one and Classes the other, and
\* are about to press save. No call fails.
LevelsSaved == [LevelsThenNone EXCEPT !.mode = "levels"]
PairConfigs == {[NoGuildConfig EXCEPT !.verified = VerifiedRole], LevelsSaved}
PairInit ==
    /\ now = 0
    /\ nextToken = 1
    /\ pending = <<>>
    /\ redisVerify = <<>>
    /\ issued = <<>>
    /\ fed = [s \in Subjects |-> NoUser]
    /\ session = [s \in {} |-> UnknownToken]
    /\ req = [r \in ReqIds |-> IdleReq]
    /\ sentLog = <<>>
    /\ rcvd = 0
    /\ redisLink = NoLinks
    /\ lastResp = NoResp
    /\ cons = IdleCons
    /\ unv = IdleUnv
    /\ redisGuild \in PairConfigs
    /\ guildRoles = LiveRoles(redisGuild)
    /\ memberRoles = [u \in Users |-> {}]
    /\ setup = IdleSetup
    /\ setupSessions = <<NewSession("levels")>>
    /\ parked = [setup |-> IdleSetup, session |-> <<NewSession("classes")>>]
    /\ drift = 0

PairNext ==
    \/ Switch
    \/ SaveStart
    \/ SaveReturn
    \/ SaveGuild(TRUE)
    \/ SaveGetMode(TRUE)
    \/ SaveGetCurrent(TRUE)
    \/ SaveDeleteRole(TRUE)
    \/ SaveDeleteKey(TRUE)
    \/ SaveCreateRole(TRUE)
    \/ SaveCreateKey(TRUE)
    \/ SaveKeep(TRUE)
    \/ SaveKeepKey(TRUE)
    \/ SaveSetMode(TRUE)

PairSpec == PairInit /\ [][PairNext]_vars

\* A server on which the wizard saved Levels, and one operator who saves
\* Levels or a custom selection, a second time if the first run was cut
\* short by a failing call. An administrator may delete a role in Discord
\* in between; nobody renames or creates one.
RerunModes == {"levels", "custom"}
RerunInit ==
    /\ now = 0
    /\ nextToken = 1
    /\ pending = <<>>
    /\ redisVerify = <<>>
    /\ issued = <<>>
    /\ fed = [s \in Subjects |-> NoUser]
    /\ session = [s \in {} |-> UnknownToken]
    /\ req = [r \in ReqIds |-> IdleReq]
    /\ sentLog = <<>>
    /\ rcvd = 0
    /\ redisLink = NoLinks
    /\ lastResp = NoResp
    /\ cons = IdleCons
    /\ unv = IdleUnv
    /\ redisGuild = LevelsSaved
    /\ guildRoles = LiveRoles(redisGuild)
    /\ memberRoles = [u \in Users |-> {}]
    /\ setup = IdleSetup
    /\ setupSessions = <<>>
    /\ parked = NoParked
    /\ drift = 0

RerunNext ==
    \/ \E mode \in RerunModes : SelectMode(mode)
    \/ \E sel \in CustomSelections : SelectCustomRoles(sel)
    \/ \E ok \in BOOLEAN : SelectAck(ok)
    \/ SaveStart
    \/ SaveReturn
    \/ \E ok \in BOOLEAN : SaveGuild(ok)
    \/ \E ok \in BOOLEAN : SaveGetMode(ok)
    \/ \E ok \in BOOLEAN : SaveGetCurrent(ok)
    \/ \E ok \in BOOLEAN : SaveDeleteRole(ok)
    \/ \E ok \in BOOLEAN : SaveDeleteKey(ok)
    \/ \E ok \in BOOLEAN : SaveCreateRole(ok)
    \/ \E ok \in BOOLEAN : SaveCreateKey(ok)
    \/ \E ok \in BOOLEAN : SaveKeep(ok)
    \/ \E ok \in BOOLEAN : SaveKeepKey(ok)
    \/ \E ok \in BOOLEAN : SaveSetMode(ok)
    \/ \E r \in DOMAIN guildRoles : AdminDeleteRole(r)

RerunSpec == RerunInit /\ [][RerunNext]_vars

\* The wizard's positions, and the shape of what it stores.
SetupPcs == {"idle", "c_ack", "s_return", "s_guild", "s_mode", "s_current", "s_delete_role", "s_delete_key",
             "s_create_role", "s_create_key", "s_keep", "s_keep_key", "s_set_mode"}
TypeRole ==
    /\ setup.pc \in SetupPcs
    /\ setup.n \in 0..MaxCommits
    /\ drift \in 0..MaxDrift
    /\ redisGuild.mode \in {"none", "levels", "classes", "custom"}
    /\ DOMAIN redisGuild.role \subseteq RoleKeys
    /\ \A r \in DOMAIN guildRoles : r # NoRole

\* =================================================================== claims
\* Vocabulary of the formulas below.

\* The completion events sent for token t (positions in the channel's history).
EventsFor(t) == {i \in 1..Len(sentLog) : sentLog[i].token = t}

\* Token t was handed to a user and has since been removed from the map.
Consumed(t) == t \in DOMAIN issued /\ t \notin DOMAIN pending

\* The age of t's pending record.
Age(t) == now - pending[t].created_at

\* This step is request r returning `out` from handler `kind`.
Returns(r, kind, out) ==
    /\ req[r].pc # "done"
    /\ req'[r].pc = "done"
    /\ lastResp'.id = r /\ lastResp'.kind = kind /\ lastResp'.outcome = out

\* This step is request r performing its lookup of token t in the map.
LooksUp(r, t) ==
    \/ /\ req[r].pc = "lc_lookup" /\ req[r].token = t
       /\ req'[r].pc # "lc_lookup"
    \/ /\ req[r].pc = "idle" /\ req'[r].pc # "idle" /\ req'[r].token = t
       /\ \/ req'[r].kind = "verify_start"
          \/ lastResp'.id = r /\ lastResp'.kind = "verify_start"

\* This step is request r's lookup of t ending the request with Expired.
LookupExpired(r) ==
    /\ req'[r].pc = "done"
    /\ lastResp'.id = r /\ lastResp'.outcome = "Expired"
    /\ sentLog' = sentLog

\* This step is request r consuming its token (the removal under the write lock).
Consumes(r) == req[r].pc \in {"vs_remove", "lc_remove"} /\ req'[r].pc = "done"

\* This step is request r receiving the subject's federated identities.
ReadsIdentities(r, kind) ==
    /\ req[r].kind = kind
    /\ req[r].pc \in {"vs_getfed", "lc_getfed"}
    /\ req'[r].pc # req[r].pc
    /\ ~(lastResp'.id = r /\ lastResp'.outcome = "KeycloakError")

\* C1: for every token, at most one completion event is ever sent, whatever
\* the interleaving of the requests that carry it.
C1_AtMostOneCompletionPerToken ==
    \A t \in Tokens : Cardinality(EventsFor(t)) <= 1

\* C2: once a token has been consumed it never resolves again, and every
\* request that looks it up from then on returns Expired and sends no event.
C2_ConsumedTokenStaysExpired ==
    [][\A t \in Tokens : Consumed(t) =>
          /\ LookupVerification(pending', t) = <<>>
          /\ \A r \in ReqIds : LooksUp(r, t) => LookupExpired(r)]_vars

C2_Witness ==
    /\ lastResp.outcome = "Expired"
    /\ Consumed(lastResp.token)
    /\ EventsFor(lastResp.token) # {}

\* C3: after a request consumes its token the token is absent for lookup and
\* for verify_status, and consuming a token that is already gone returns
\* normally and changes nothing: no map, no session, no identity, no event.
C3_ConsumeIdempotent ==
    [][\A r \in ReqIds : Consumes(r) =>
          /\ LookupVerification(pending', req[r].token) = <<>>
          /\ VerifyStatus(req[r].token)' = "not_found"
          /\ lastResp'.outcome = "Linked"
          /\ sentLog' = sentLog
          /\ (req[r].token \notin DOMAIN pending =>
                 UNCHANGED <<pending, redisVerify, issued, fed, session, sentLog,
                             rcvd, redisLink, now, nextToken>>)]_vars

\* A second consume of the same token has happened and another token is
\* still pending.
C3_Witness ==
    /\ lastResp.outcome = "Linked"
    /\ Cardinality({r \in ReqIds : req[r].pc = "done" /\ req[r].token = lastResp.token}) = 2
    /\ Cardinality(EventsFor(lastResp.token)) = 2
    /\ DOMAIN pending # {}

\* C4: a pending record whose age has reached the TTL is treated as absent:
\* a handler that looks it up returns Expired and verify_status answers
\* not_found, even though the map still holds the entry.
C4_AgedRecordIsAbsent ==
    [][\A t \in DOMAIN pending : Age(t) >= VERIFY_TTL =>
          /\ VerifyStatus(t) = "not_found"
          /\ \A r \in ReqIds : LooksUp(r, t) => LookupExpired(r)]_vars

\* The requests (finished or in flight) that carried token t.
Carried(t) == {r \in ReqIds : req[r].pc # "idle" /\ req[r].token = t}

\* The completion event of a request of subject s for the record created for t.
EventOf(t, s) ==
    [discord_user_id |-> issued[t].discord_user_id, guild_id |-> issued[t].guild_id,
     keycloak_user_id |-> s, token |-> t]

\* C5: the happy path. verify_start of a subject with no Discord identity
\* goes on to store the token in the web session and returns
\* AwaitingExternalAuth (the redirect to the link action): no event is sent and
\* the record is not consumed. Once the subject is linked to the requester,
\* link_callback sends the event {requester, server, subject}, consumes the
\* token and returns Linked: the token no longer resolves and, the two
\* requests being the only ones that carried the token, exactly one
\* completion event has been sent for it.
C5_HappyPath ==
    [][\A r \in ReqIds :
          /\ (ReadsIdentities(r, "verify_start") /\ fed[req[r].user] = NoUser) =>
                /\ req'[r].pc = "vs_sess_insert"
                /\ UNCHANGED <<sentLog, pending, session>>
          /\ Returns(r, "verify_start", "AwaitingExternalAuth") =>
                /\ req[r].pc = "vs_sess_insert"
                /\ Lookup(session', req[r].user) = <<req[r].token>>
                /\ sentLog' = sentLog
                /\ pending' = pending
          /\ ( /\ ReadsIdentities(r, "link_callback")
               /\ fed[req[r].user] = req[r].ver.discord_user_id ) =>
                /\ sentLog' = Append(sentLog, EventOf(req[r].token, req[r].user))
                /\ req'[r].pc = "lc_remove"
          /\ (req[r].pc = "lc_remove" /\ req'[r].pc = "done") =>
                Returns(r, "link_callback", "Linked")
          /\ Returns(r, "link_callback", "Linked") =>
                /\ req[r].pc = "lc_remove"
                /\ LookupVerification(pending', req[r].token) = <<>>
                /\ \E i \in EventsFor(req[r].token) :
                      sentLog[i] = EventOf(req[r].token, req[r].user)
                /\ (Cardinality(Carried(req[r].token)) = 2 =>
                       Cardinality(EventsFor(req[r].token)) = 1)]_vars

\* link_callback has returned Linked after the one verify_start for the token.
C5_Witness ==
    /\ lastResp.kind = "link_callback" /\ lastResp.outcome = "Linked"
    /\ Cardinality(Carried(lastResp.token)) = 2
    /\ \A r \in Carried(lastResp.token) : req[r].pc = "done"
    /\ Cardinality(EventsFor(lastResp.token)) = 1
    /\ sentLog[1] = EventOf(lastResp.token, lastResp.user)
    /\ lastResp.token \notin DOMAIN pending

\* C6: when verify_start reads a Discord identity equal to the requester of
\* its pending record, it sends the completion event at once, never stores the
\* token in the session for a secondary authentication, and the same request
\* consumes the token and returns Linked.
C6_AlreadyLinkedGoesToLinked ==
    [][\A r \in ReqIds :
          /\ (ReadsIdentities(r, "verify_start") /\ fed[req[r].user] = req[r].ver.discord_user_id) =>
                /\ sentLog' = Append(sentLog, EventOf(req[r].token, req[r].user))
                /\ req'[r].pc = "vs_remove"
          /\ req[r].pc = "vs_remove" =>
                /\ req'[r].pc \in {"vs_remove", "done"}
                /\ (req'[r].pc = "done" =>
                       /\ Returns(r, "verify_start", "Linked")
                       /\ LookupVerification(pending', req[r].token) = <<>>
                       /\ session' = session)
          /\ Returns(r, "verify_start", "Linked") => req[r].pc = "vs_remove"]_vars

C6_Witness ==
    /\ lastResp.kind = "verify_start" /\ lastResp.outcome = "Linked"
    /\ lastResp.token \in DOMAIN issued
    /\ lastResp.token \notin DOMAIN pending
    /\ sentLog = <<EventOf(lastResp.token, lastResp.user)>>
    /\ session = <<>>

\* The shared state a web handler can write.
shared == <<pending, redisVerify, issued, fed, session, sentLog, rcvd, redisLink>>

\* C7: when verify_start reads a Discord identity different from the
\* requester of its pending record it returns AlreadyLinkedElsewhere, and no
\* step of such a request writes anything: no event, no removal of the token,
\* no change of a federated identity, of the session or of a store key.
C7_AlreadyLinkedElsewhereNoMutation ==
    [][\A r \in ReqIds :
          /\ ( /\ ReadsIdentities(r, "verify_start")
               /\ fed[req[r].user] \notin {NoUser, req[r].ver.discord_user_id} ) =>
                Returns(r, "verify_start", "AlreadyLinkedElsewhere")
          /\ Returns(r, "verify_start", "AlreadyLinkedElsewhere") =>
                /\ req[r].pc = "vs_getfed"
                /\ UNCHANGED shared
          /\ (req[r].pc = "idle" /\ req'[r].pc = "vs_getfed") => UNCHANGED shared]_vars

C7_Witness ==
    /\ lastResp.kind = "verify_start" /\ lastResp.outcome = "AlreadyLinkedElsewhere"
    /\ lastResp.token \in DOMAIN pending
    /\ fed[lastResp.user] \notin {NoUser, pending[lastResp.token].discord_user_id}
    /\ sentLog = <<>>

\* C8: whenever link_callback returns WrongIdentity, the subject's Discord
\* identity is gone from the provider and no event was sent.
C8_WrongIdentityUnlinked ==
    [][\A r \in ReqIds : Returns(r, "link_callback", "WrongIdentity") =>
          /\ fed'[req[r].user] = NoUser
          /\ sentLog' = sentLog]_vars

\* C9: when link_callback reads no Discord identity it returns NotLinked,
\* sends no event and leaves the pending verification in the map.
C9_NotLinkedKeepsPending ==
    [][\A r \in ReqIds :
          /\ (ReadsIdentities(r, "link_callback") /\ fed[req[r].user] = NoUser) =>
                Returns(r, "link_callback", "NotLinked")
          /\ Returns(r, "link_callback", "NotLinked") =>
                /\ req[r].pc = "lc_getfed"
                /\ fed[req[r].user] = NoUser
                /\ sentLog' = sentLog
                /\ pending' = pending]_vars

C9_Witness ==
    /\ lastResp.kind = "link_callback" /\ lastResp.outcome = "NotLinked"
    /\ lastResp.token \in DOMAIN pending
    /\ EventsFor(lastResp.token) = {}

\* C10: every event sent is sent by a request that has just read, for its own
\* subject, a Discord identity equal to the requester of the record created
\* for its token, and carries that requester, that record's server and that
\* subject; no other step sends anything.
C10_EventsMatchRecordAndIdentity ==
    [][sentLog' # sentLog =>
          \E r \in ReqIds :
             /\ req[r].pc \in {"vs_getfed", "lc_getfed"}
             /\ req[r].token \in DOMAIN issued
             /\ sentLog' = Append(sentLog, EventOf(req[r].token, req[r].user))
             /\ fed[req[r].user] = issued[req[r].token].discord_user_id
             /\ fed[req[r].user] # NoUser]_vars

\* Events of two subjects for two tokens are on the channel.
C10_Witness ==
    /\ Len(sentLog) = 2
    /\ sentLog[1].token # sentLog[2].token
    /\ sentLog[1].keycloak_user_id # sentLog[2].keycloak_user_id
    /\ \A i \in 1..2 : sentLog[i] = EventOf(sentLog[i].token, sentLog[i].keycloak_user_id)

\* ------------------------------------------------------------ C11 .. C18
\* Vocabulary of the formulas below.

\* This step is a step of the consumer task.
ConsumerStep == cons' # cons

\* This step is the consumer taking the next event off the channel.
Receives == rcvd' # rcvd

\* The consumer is inside complete_verification or its error message.
Processing == cons.pc # "idle"

\* C11: the consumer takes events off the channel one by one in send order,
\* and only when the processing of the previous event (role assignment, link
\* persistence, notifications) is over; the channel's history only grows at
\* its end, and what a processing writes are the keys of the event received
\* last.
C11_ConsumerOneAtATime ==
    [][/\ Receives =>
            /\ ~Processing
            /\ rcvd' = rcvd + 1
            /\ cons'.pc = "cv_member" /\ cons'.n = rcvd'
       /\ Len(sentLog') >= Len(sentLog) /\ SubSeq(sentLog', 1, Len(sentLog)) = sentLog
       /\ Processing => cons.n = rcvd
       /\ (ConsumerStep /\ cons.pc = "cv_set_dk" /\ cons'.pc = "cv_set_kd") =>
             Lookup(redisLink'.dk, sentLog[rcvd].discord_user_id)
                = <<sentLog[rcvd].keycloak_user_id>>
       /\ (ConsumerStep /\ cons.pc = "cv_set_kd" /\ cons'.pc \in {"cv_log", "cv_dm"}) =>
             Lookup(redisLink'.kd, sentLog[rcvd].keycloak_user_id)
                = <<sentLog[rcvd].discord_user_id>>]_vars

\* A second event was sent and waits while the first is being persisted.
C11_Witness ==
    /\ Len(sentLog) = 2 /\ rcvd = 1
    /\ cons.pc = "cv_set_dk"
    /\ sentLog[1].discord_user_id # sentLog[2].discord_user_id

\* The consumer's step ends complete_verification with an error.
Fails == ConsumerStep /\ cons' = Failed(cons)

\* C12: when the server has no verified role configured, or the verified role
\* cannot be assigned, complete_verification ends with an error: the consumer
\* goes on to its error message, never to the SETs, and writes no identity
\* key for the event. The SETs are reached only after the verified role was
\* assigned.
C12_NoVerifiedRoleNoLink ==
    [][/\ (ConsumerStep /\ cons.pc = "cv_config" /\ redisGuild.verified = NoRole) => Fails
       /\ (ConsumerStep /\ cons.pc = "cv_add_role"
              /\ cons.cfg.verified \notin memberRoles'[Event.discord_user_id]) => Fails
       /\ (Fails /\ cons.pc \in {"cv_member", "cv_config", "cv_add_role", "cv_attr_roles"}) =>
             redisLink' = redisLink
       /\ (ConsumerStep /\ cons.pc = "cv_error_dm") =>
             /\ cons'.pc = "idle" /\ cons'.result = "Err"
             /\ redisLink' = redisLink
       /\ (ConsumerStep /\ cons'.pc = "cv_attr_roles") =>
             /\ cons.pc = "cv_add_role"
             /\ cons.cfg.verified # NoRole
             /\ cons.cfg.verified \in memberRoles'[Event.discord_user_id]
       /\ (ConsumerStep /\ cons'.pc = "cv_set_at") => cons.pc = "cv_attr_roles"
       /\ (ConsumerStep /\ redisLink' # redisLink) =>
             cons.pc \in {"cv_set_at", "cv_set_dk", "cv_set_kd"}]_vars

\* An event for an unconfigured server was processed: error reported to the
\* user, nothing stored.
C12_Witness ==
    /\ redisGuild.verified = NoRole
    /\ rcvd = 1 /\ cons.pc = "idle"
    /\ cons.result = "Err" /\ "failed" \in cons.msgs
    /\ redisLink = NoLinks

\* The pairs (Discord id, SSO id) the store holds in either direction.
ForwardPairs == {<<u, redisLink.dk[u]>> : u \in DOMAIN redisLink.dk}
BackwardPairs == {<<redisLink.kd[s], s>> : s \in DOMAIN redisLink.kd}

\* C13: in every reachable state the two directions of the identity link are
\* stored together: discord:<D>:keycloak = S exactly when keycloak:<S>:discord = D.
C13_LinkNeverPartial == ForwardPairs = BackwardPairs

\* No command and no completion is in progress.
Quiescent == cons.pc = "idle" /\ unv.pc = "idle"

\* C14: whenever no operation is in progress the stored links form a
\* one-to-one relation: no Discord id is paired with two SSO ids, no SSO id
\* with two Discord ids, and the two directions hold the same pairs.
C14_LinksOneToOne ==
    Quiescent =>
       /\ \A p, q \in ForwardPairs \cup BackwardPairs : (p[1] = q[1]) <=> (p[2] = q[2])
       /\ ForwardPairs = BackwardPairs

\* The event's Discord id or SSO id is stored with another partner.
Conflicts(ev) ==
    \/ \E p \in ForwardPairs \cup BackwardPairs :
          p[1] = ev.discord_user_id /\ p[2] # ev.keycloak_user_id
    \/ \E p \in ForwardPairs \cup BackwardPairs :
          p[1] # ev.discord_user_id /\ p[2] = ev.keycloak_user_id

\* This step is the consumer executing one of the three SETs.
Persists == ConsumerStep /\ cons.pc \in {"cv_set_at", "cv_set_dk", "cv_set_kd"}

\* C15: persisting a link whose Discord id or SSO id is already bound to
\* another partner fails (IdentityConflict) and leaves every stored key as
\* it was.
C15_ConflictMutatesNothing ==
    [][(Persists /\ Conflicts(Event)) =>
          /\ redisLink' = redisLink
          /\ cons'.result = "Err"]_vars

\* The event's pair is stored in both directions, with its timestamp.
AlreadyLinked(ev) ==
    /\ <<ev.discord_user_id, ev.keycloak_user_id>> \in ForwardPairs \cap BackwardPairs
    /\ ev.discord_user_id \in DOMAIN redisLink.at

\* C16: persisting a pair that is already stored changes nothing, the
\* linked-at timestamp included.
C16_RelinkIsNoOp ==
    [][(Persists /\ AlreadyLinked(Event)) => redisLink' = redisLink]_vars

\* This step is /unverify returning with the given reply.
Replies(reply) == unv' # unv /\ unv'.pc = "idle" /\ unv'.reply = reply

\* C17: when /unverify completes for a user D it found linked to S, none of
\* discord:<D>:keycloak, keycloak:<S>:discord and discord:<D>:verified_at
\* exists; /unverify of a user with no stored link replies "not verified" and
\* changes neither the store nor any role.
C17_UnverifyRemovesLink ==
    [][/\ (Replies("removed") /\ unv.pc = "uv_roles") =>
             /\ unv.target \notin DOMAIN redisLink'.dk
             /\ unv.kc \notin DOMAIN redisLink'.kd
             /\ unv.target \notin DOMAIN redisLink'.at
       /\ Replies("removed") => unv.pc = "uv_roles"
       /\ Replies("not_verified") =>
             /\ unv'.target \notin DOMAIN redisLink.dk
             /\ redisLink' = redisLink
             /\ memberRoles' = memberRoles]_vars

\* C18: once the roles are assigned and the three keys stored, a failing
\* notification (log channel message, success message to the user) changes
\* nothing about the outcome: complete_verification returns Ok and no
\* "Verification failed" message follows.
C18_NotificationFailureSwallowed ==
    [][(ConsumerStep /\ cons.pc \in {"cv_log", "cv_dm"}) =>
          /\ cons'.pc \in {"cv_dm", "idle"}
          /\ cons'.result # "Err"
          /\ (cons'.pc = "idle" => cons'.result = "Ok")]_vars

\* C19: every role id in the configuration load returns, the verified role
\* and each level and class role, is a role of the server at that moment; a
\* stored id whose role is gone comes back unset.
C19_LoadedRolesExist ==
    LET cfg == Load(redisGuild, guildRoles)
    IN /\ cfg.verified # NoRole => cfg.verified \in DOMAIN guildRoles
       /\ \A k \in DOMAIN cfg.role : cfg.role[k] \in DOMAIN guildRoles

\* save_and_create_roles returns Ok from a run in which no call failed.
CommitsCleanly ==
    /\ setup.pc = "s_set_mode"
    /\ setup.clean
    /\ setup'.pc = "s_return"
    /\ setup'.result = "Ok"

\* C20: when a commit to levels, classes or custom returns with no call
\* having failed, every role of a key that was current and is not desired is
\* gone from the server and its key from the store, every desired key is
\* stored with a role of the server, and role_mode is the new mode.
C20_CommitReconciles ==
    [][CommitsCleanly =>
        /\ \A j \in DOMAIN setup.to_delete :
              /\ setup.to_delete[j][2] \notin DOMAIN guildRoles'
              /\ setup.to_delete[j][1] \notin DOMAIN redisGuild'.role
        /\ \A k \in Keys(setup.desired) :
              /\ k \in DOMAIN redisGuild'.role
              /\ redisGuild'.role[k] \in DOMAIN guildRoles'
        /\ redisGuild'.mode = setup.mode]_vars

\* The save step under way follows one that returned Ok for the same
\* session, and no administrator changed the roles since that one started.
RepeatsLastRun ==
    /\ setup.pc # "idle"
    /\ setup.prev.result = "Ok"
    /\ setup.prev.mode = setup.mode
    /\ setup.prev.custom = setup.custom
    /\ setup.prev.drift0 = setup.drift0

\* C21: a run of save_and_create_roles that repeats the last one, with no
\* change by administrators in between, leaves the stored role keys as they
\* are and issues no create_role and no delete_role call.
C21_ReconcilerIdempotent ==
    [][RepeatsLastRun => /\ redisGuild'.role = redisGuild.role
                         /\ setup'.calls = <<>>]_vars

\* The item of roles_to_keep the run is at, and whether the run goes on.
KeepKey == setup.to_keep[setup.i][1]
KeepId == setup.to_keep[setup.i][2]
GoesOn == setup'.pc # "s_return"

\* C22: a kept role that was gone from the server when the run started is
\* created again under its display name and its key is stored with the new
\* id; a kept role that is still there costs no call and changes nothing.
C22_SelfHealing ==
    [][/\ (setup.pc = "s_keep" /\ KeepId \notin DOMAIN setup.guild /\ GoesOn) =>
            /\ setup'.pc = "s_keep_key"
            /\ setup'.new_id \in DOMAIN guildRoles' \ DOMAIN guildRoles
            /\ setup'.new_id # KeepId
            /\ \E j \in DOMAIN setup.desired :
                  setup.desired[j] = <<guildRoles'[setup'.new_id], KeepKey>>
       /\ (setup.pc = "s_keep_key" /\ GoesOn) =>
            /\ redisGuild'.role = [redisGuild.role EXCEPT ![KeepKey] = setup.new_id]
            /\ guildRoles' = guildRoles
       /\ (setup.pc = "s_keep" /\ KeepId \in DOMAIN guildRoles) =>
            /\ guildRoles' = guildRoles
            /\ redisGuild' = redisGuild
            /\ setup'.calls = setup.calls]_vars

\* A run has recreated a kept role and stored its new id.
C22_Witness ==
    /\ setup.pc = "s_set_mode"
    /\ \E j \in DOMAIN setup.to_keep :
          LET key == setup.to_keep[j][1]
          IN /\ setup.to_keep[j][2] \notin DOMAIN setup.guild
             /\ redisGuild.role[key] # setup.to_keep[j][2]
             /\ redisGuild.role[key] \in DOMAIN guildRoles

\* The save button is pressed on a custom session with nothing selected.
SavesEmptyCustom ==
    /\ setup.pc = "idle"
    /\ setup'.n = setup.n + 1
    /\ setup'.mode = "custom"
    /\ setup'.custom = <<>>

\* C23: saving a custom session with no selected role fails validation: the
\* handler returns at once, no create_role or delete_role call is issued and
\* neither role_mode nor any role key of the store changes.
C23_EmptyCustomRejected ==
    [][SavesEmptyCustom => /\ setup'.pc = "idle"
                           /\ setup'.result = "Invalid"
                           /\ setup'.calls = <<>>
                           /\ redisGuild' = redisGuild
                           /\ guildRoles' = guildRoles]_vars

\* A save of an empty custom session has been rejected.
C23_Witness ==
    /\ setup.result = "Invalid"
    /\ setup.mode = "custom"
    /\ setup.custom = <<>>

\* C24: when save_and_create_roles has returned to the save step, with Ok
\* or with an error, the operator's entry leaves the session table.
C24_SessionRemovedAfterCommit ==
    [][setup.pc = "s_return" => setupSessions' = <<>>]_vars

\* C25: the record of a token is removed before or together with the send
\* of its completion event: no event on the channel is for a token that
\* still resolves.
C25_ConsumeThenEmit ==
    \A i \in DOMAIN sentLog : LookupVerification(pending, sentLog[i].token) = <<>>

\* C26: once a token has been consumed, neither the in-process map nor the
\* Redis key verify:<token> holds its record.
C26_ConsumedFromBothStores ==
    \A t \in Tokens : Consumed(t) =>
        /\ LookupVerification(pending, t) = <<>>
        /\ RedisVerifyGet(t) = <<>>

\* This step is /verify creating a token whose SETEX fails.
CreateFailsDurably ==
    /\ nextToken' = nextToken + 1
    /\ redisVerify' = redisVerify

\* C27: when the SETEX of verify:<token> fails, /verify ends with the error
\* and sends no link: no link containing the token reaches the user.
C27_NoLinkWithoutDurableRecord ==
    [][CreateFailsDurably => /\ issued' = issued
                             /\ nextToken \notin DOMAIN issued']_vars

\* A token exists whose SETEX failed, and later commands have succeeded.
C27_Witness ==
    \E t \in DOMAIN pending :
        /\ t \notin DOMAIN redisVerify
        /\ t \notin DOMAIN issued
        /\ issued # <<>>

\* This step is the consumer passing the attribute roles (lines 132-162)
\* with the subject's attributes fetched; the roles the member gains by it.
AssignsAttributeRoles == cons.pc = "cv_attr_roles" /\ cons'.pc = "cv_set_at"
Gained == memberRoles'[Event.discord_user_id] \ memberRoles[Event.discord_user_id]

\* The role stored for the attribute value `key` of one of the two kinds,
\* if the server's mode is one of `modes`.
Configured(key, kind, modes) ==
    IF redisGuild.mode \in modes /\ key \in kind /\ key \in DOMAIN redisGuild.role
    THEN {redisGuild.role[key]} ELSE {}

AtPlatformCall(st) == st.pc \in {"s_delete_role", "s_create_role", "s_keep", "s_set_mode"}

\* Every role the run has created, reused or kept so far is stored under
\* its key.
CreatedAreStored ==
    \A j \in DOMAIN setup'.all_roles :
        LET key == setup'.all_roles[j][1]
        IN /\ key \in DOMAIN redisGuild'.role
           /\ redisGuild'.role[key] = setup'.all_roles[j][2]

\* This step removes the key of the item of roles_to_delete the run is at.
RemovesDeletedKey ==
    /\ setup.pc = "s_delete_key"
    /\ setup.to_delete[setup.i][1] \notin DOMAIN redisGuild'.role

\* C29: throughout a run the stored role keys are those of the steps done so
\* far: before each call to Discord every role created or reused so far is
\* stored, and a key is removed only if its role is gone from the server
\* (deleted by the run or gone already).
C29_StoreFollowsEachStep ==
    [][/\ AtPlatformCall(setup') => CreatedAreStored
       /\ RemovesDeletedKey => setup.to_delete[setup.i][2] \notin DOMAIN guildRoles']_vars

\* C30: a delete_role or create_role call that fails for one role does not
\* end the run: the run goes on with the rest of the roles.
C30_OneFailureDoesNotAbort ==
    [][setup.pc \in {"s_delete_role", "s_create_role", "s_keep"} =>
          setup'.pc # "s_return"]_vars

\* The item of roles_to_create the run is at, the roles the server has now
\* under its display name, and whether this step issues a call to Discord.
CreateName == setup.to_create[setup.i][1]
CreateKey == setup.to_create[setup.i][2]
LiveNamed == Named(guildRoles, CreateName)
IssuesCall == setup'.calls # setup.calls

\* C31: for a key of roles_to_create whose display name a role of the server
\* bears, no create_role call is issued, that role's id is stored under the
\* key and the server gets no second role of the name; create_role is called
\* only when the server has no role of the name.
C31_ReuseByName ==
    [][/\ (setup.pc = "s_create_role" /\ LiveNamed # {}) =>
            /\ ~IssuesCall
            /\ setup'.new_id \in LiveNamed
            /\ Named(guildRoles', CreateName) = LiveNamed
       /\ (setup.pc = "s_create_role" /\ IssuesCall) => LiveNamed = {}
       /\ (setup.pc = "s_create_key" /\ GoesOn) =>
            redisGuild'.role = Insert(redisGuild.role, CreateKey, setup.new_id)]_vars

\* The item of roles_to_delete the run is at.
DeleteKey == setup.to_delete[setup.i][1]
DeleteId == setup.to_delete[setup.i][2]

\* C32: for a key of roles_to_delete whose role the server no longer has, no
\* delete_role call is issued, the run goes on as after a deletion, and the
\* key's mapping is removed from the store.
C32_AbsentRoleDeleteIsNoOp ==
    [][/\ (setup.pc = "s_delete_role" /\ DeleteId \notin DOMAIN guildRoles) =>
            /\ ~IssuesCall
            /\ setup'.pc = "s_delete_key"
            /\ setup'.clean = setup.clean
       /\ (setup.pc = "s_delete_key" /\ GoesOn) =>
            redisGuild'.role = Remove(redisGuild.role, DeleteKey)]_vars

\* C33: no wizard handler is at an await of an external call while its guard
\* of the session table is alive.
C33_NoLockAcrossCall == setup.pc \notin GuardedPcs \cap AwaitPcs

\* The RoleConfig part of the store, and the steps of save_and_create_roles
\* that write to the store.
RoleConfigOf(store) == [verified |-> store.verified, mode |-> store.mode, role |-> store.role]
ReconcilerWrites == setup.pc \in {"s_delete_key", "s_create_key", "s_keep_key", "s_set_mode"}

\* C34: the verified role, role_mode and the role keys of a server change
\* only by a step of save_and_create_roles.
C34_OnlyReconcilerWrites ==
    [][RoleConfigOf(redisGuild') # RoleConfigOf(redisGuild) => ReconcilerWrites]_vars

\* This step ends a commit of the wizard in which no call failed, the one
\* before it (if any) having ended well too and no administrator having
\* changed the roles: the final SET of a save step, or the SET of mode None.
SelectsNone == setup.pc = "idle" /\ setup'.n = setup.n + 1 /\ setup'.result = "Ok"
CommitEnds ==
    /\ drift = 0
    /\ \/ CommitsCleanly /\ setup.prev.result \in {"none", "Ok"}
       \/ SelectsNone /\ setup.result \in {"none", "Ok"}

\* The role keys the mode just persisted asks for.
KeysOfCommit == IF SelectsNone THEN {} ELSE Keys(setup.desired)

\* C35: after a commit, mode None included, the keys that have a stored
\* role are the desired keys of the persisted mode: no key of an earlier
\* mode is left.
C35_NoLeftoverKeys ==
    [][CommitEnds => DOMAIN redisGuild'.role = KeysOfCommit]_vars

\* Both operators' save steps have returned Ok and their handlers are done.
BothCommitted ==
    /\ setup.pc = "idle" /\ setup.result = "Ok"
    /\ parked.setup.pc = "idle" /\ parked.setup.result = "Ok"

\* The keys role_mode asks for when the wizard saved Levels or Classes.
KeysOfMode(mode) ==
    CASE mode = "levels" -> LevelKeys
      [] mode = "classes" -> ClassKeys
      [] OTHER -> {}

\* C36: when two operators have committed Levels and Classes concurrently
\* and both runs have returned, the stored keys are those of the stored
\* mode, each with a role of the server, and no display name has two roles.
C36_ConcurrentCommitsSerialize ==
    BothCommitted =>
        /\ DOMAIN redisGuild.role = KeysOfMode(redisGuild.mode)
        /\ \A k \in DOMAIN redisGuild.role : redisGuild.role[k] \in DOMAIN guildRoles
        /\ \A r1, r2 \in DOMAIN guildRoles : guildRoles[r1] = guildRoles[r2] => r1 = r2

\* The save step that is ending well repeats, for the same session, one
\* that returned an error, and nobody touched the roles since that one
\* started.
RerunCommits ==
    /\ CommitsCleanly
    /\ setup.prev.result = "Err"
    /\ setup.prev.mode = setup.mode
    /\ setup.prev.custom = setup.custom
    /\ setup.prev.drift0 = drift

\* No two roles of the server bear the same name.
NamesUnique(live) == \A r1, r2 \in DOMAIN live : live[r1] = live[r2] => r1 = r2

\* C37: the re-run of a session whose first run was cut short brings store
\* and server to the desired state: every desired key has a role of the
\* server, role_mode is the session's mode, and no display name has two
\* roles.
C37_RerunConverges ==
    [][RerunCommits =>
          /\ \A k \in Keys(setup.desired) :
                /\ k \in DOMAIN redisGuild'.role
                /\ redisGuild'.role[k] \in DOMAIN guildRoles'
          /\ redisGuild'.mode = setup.mode
          /\ NamesUnique(guildRoles')]_vars

ProcessingEnds == cons.pc \in {"cv_dm", "cv_error_dm"} /\ cons'.pc = "idle"

\* The link of the event's pair, as it is stored after the step.
EventLinkStored ==
    /\ <<Event.discord_user_id, Event.keycloak_user_id>> \in ForwardPairs'
    /\ <<Event.discord_user_id, Event.keycloak_user_id>> \in BackwardPairs'

\* C39: when the processing of an event ends and the member holds the
\* verified role the run loaded, the link of the event's pair is stored.
C39_VerifiedRoleOnlyWithLink ==
    [][(ProcessingEnds /\ cons.cfg.verified \in memberRoles'[Event.discord_user_id])
          => EventLinkStored]_vars


\* The turn of the consumer loop for the i-th event sent has ended.
Processed(i) == rcvd > i \/ (rcvd = i /\ cons.pc = "idle")

\* C40: every completion event enqueued on the channel is eventually received
\* and its turn of the loop ends, whatever complete_verification and the error
\* direct message return: a failure for one event does not stop the loop, and
\* the events behind it are still received and processed.
C40_EveryEventProcessed == \A i \in 1..MaxTokens : (Len(sentLog) >= i) ~> Processed(i)

\* The second event was processed with success after the first one, of another
\* user, failed and stored no link.
C40_Witness ==
    /\ rcvd = 2
    /\ cons.pc = "idle"
    /\ cons.result = "Ok"
    /\ sentLog[1].discord_user_id # sentLog[2].discord_user_id
    /\ sentLog[1].discord_user_id \notin DOMAIN redisLink.dk
    /\ sentLog[2].discord_user_id \in DOMAIN redisLink.dk

====
